---- MODULE Spec2Model ----
(***************************************************************************)
(* Model of the graphbrain LLM API core: the tri-state rule validator      *)
(* (api/validation.py), the bounded reasoning walker and neighbor search   *)
(* (api/graph_ops.py), the pattern sanitizer (api/utils.py) and the       *)
(* GraphbrainAPI operations they call (api/core.py).                       *)
(*                                                                         *)
(* Texts are sequences of tokens; a token is an atom text or one of the    *)
(* one-character tokens "(", ")", " ", "*".  Chars() spells a token out    *)
(* into characters for the code's substring and regular-expression tests.  *)
(* Confidences are floats scaled by 100.                                   *)
(***************************************************************************)
EXTENDS Integers, Sequences, FiniteSets, TLC

VARIABLES
    store,            \* hg: the stored facts in enumeration order, each with its attribute map
    active_layers,    \* GraphbrainAPI._active_layers
    pc,               \* position of the client: idle, or inside one API call
    error,            \* the exception a failed call raised
    proposed_edges,   \* validate_edges_against_rules: the normalised batch
    rule_pattern,     \*   its rule_pattern argument
    layers,           \*   its layers argument
    confidence_min,   \*   its confidence_min argument
    strategy,         \*   its strategy argument
    rules,            \*   the selected rules
    next_edge,        \*   index of the next proposed edge of the for loop
    kept,
    rejected,
    unknown,
    report,           \*   the returned ValidationReport
    previous_report,  \* the report of the call before, when this call repeats it
    query,            \* search_with_reasoning / find_neighbors: the seed as given
    hops,             \*   hops / max_degree
    limit,
    visited,
    results,
    queue,
    searches,         \* the calls of hg.search made by the running call
    pattern,          \* sanitize_pattern called alone: its argument
    max_depth,
    sanitized,        \*   and its outcome
    fault,            \* the store call that fails, when the backend is failing
    cancel_requested, \* the caller's deadline passed while its call was running
    writes            \* writes other clients made while the call was running

api_vars == <<store, active_layers>>
val_vars == <<proposed_edges, rule_pattern, layers, confidence_min, strategy, rules,
              next_edge, kept, rejected, unknown, report, previous_report>>
walk_vars == <<query, hops, limit, visited, results, queue>>
san_vars == <<pattern, max_depth, sanitized>>
env_vars == <<fault, cancel_requested, writes>>
vars == <<store, active_layers, pc, error, proposed_edges, rule_pattern, layers,
          confidence_min, strategy, rules, next_edge, kept, rejected, unknown, report,
          previous_report, query, hops, limit, visited, results, queue, searches,
          pattern, max_depth, sanitized, fault, cancel_requested, writes>>

(***************************************************************************)
(* Bounds of the model.                                                    *)
(***************************************************************************)
MaxStore == 3      \* facts in the store
MaxBatch == 2      \* proposed edges in one validation call
MaxHops == 2       \* hop limit of a walk
MaxLimit == 4      \* result limit of a walk
MaxParts == 3      \* parts of a pattern handed to the sanitizer alone
MaxNest == 11      \* nesting depth of the nested patterns handed to the sanitizer
MaxWrites == 2     \* writes of other clients during one validation call
MaxRules == 3      \* facts in the store of the client that starts from a rule pack

(***************************************************************************)
(* Program constants.                                                      *)
(***************************************************************************)
DefaultMaxDepth == 10
NeighborQueryLimit == 20
RuleScanLimit == 10000
ContextScanLimit == 1000

None == "None"

(***************************************************************************)
(* Characters and texts.                                                   *)
(***************************************************************************)
AtomChars ==
    "contraindicated/P" :> <<"c", "o", "n", "t", "r", "a", "i", "n", "d", "i", "c", "a", "t", "e", "d", "/", "P">>
    @@ "recommended/P" :> <<"r", "e", "c", "o", "m", "m", "e", "n", "d", "e", "d", "/", "P">>
    @@ "required/P" :> <<"r", "e", "q", "u", "i", "r", "e", "d", "/", "P">>
    @@ "takes/P" :> <<"t", "a", "k", "e", "s", "/", "P">>
    @@ "a/P" :> <<"a", "/", "P">>
    @@ "ibuprofen/C" :> <<"i", "b", "u", "p", "r", "o", "f", "e", "n", "/", "C">>
    @@ "diabetes/C" :> <<"d", "i", "a", "b", "e", "t", "e", "s", "/", "C">>
    @@ "allergy_test/C" :> <<"a", "l", "l", "e", "r", "g", "y", "_", "t", "e", "s", "t", "/", "C">>
    @@ "new_medication/C" :> <<"n", "e", "w", "_", "m", "e", "d", "i", "c", "a", "t", "i", "o", "n", "/", "C">>
    @@ "patient/C" :> <<"p", "a", "t", "i", "e", "n", "t", "/", "C">>
    @@ "user/C" :> <<"u", "s", "e", "r", "/", "C">>
    @@ "note/P" :> <<"n", "o", "t", "e", "/", "P">>
    @@ "x--" :> <<"x", "-", "-">>
    @@ "forbidden_required/P" :> <<"f", "o", "r", "b", "i", "d", "d", "e", "n", "_", "r", "e", "q", "u", "i", "r", "e", "d", "/", "P">>

Atoms == DOMAIN AtomChars

\* str(atom), character by character; a one-character token is itself
Chars(tok) == IF tok \in Atoms THEN AtomChars[tok] ELSE <<tok>>

RECURSIVE Spell(_)
Spell(tokens) ==
    IF tokens = <<>> THEN <<>> ELSE Chars(Head(tokens)) \o Spell(Tail(tokens))

\* str.lower(), and the case folding of re.IGNORECASE, on the letters in use
LowerChar(c) ==
    CASE c = "A" -> "a" [] c = "C" -> "c" [] c = "D" -> "d" [] c = "E" -> "e"
      [] c = "L" -> "l" [] c = "O" -> "o" [] c = "P" -> "p" [] c = "R" -> "r"
      [] c = "T" -> "t" [] c = "U" -> "u" [] OTHER -> c

Lower(s) == [i \in 1..Len(s) |-> LowerChar(s[i])]

\* sub in s
Contains(s, sub) ==
    \E i \in 1..(Len(s) - Len(sub) + 1) :
        \A k \in 1..Len(sub) : s[i + k - 1] = sub[k]

\* s.count(c)
RECURSIVE Count(_, _)
Count(s, c) ==
    IF s = <<>> THEN 0
    ELSE (IF Head(s) = c THEN 1 ELSE 0) + Count(Tail(s), c)

Max(a, b) == IF a >= b THEN a ELSE b

\* "seq[:n] if n else seq": no slice when n is falsy (None is modelled as 0)
Take(seq, n) ==
    IF n = 0 \/ Len(seq) <= n THEN seq ELSE SubSeq(seq, 1, n)

Range(seq) == {seq[i] : i \in 1..Len(seq)}

(***************************************************************************)
(* sanitize_pattern (api/utils.py).                                        *)
(***************************************************************************)
Whitespace == {" ", "\n", "\t"}

\* re.search(r';.*KW', text, re.IGNORECASE): '.' matches no line break
SearchSemicolonKeyword(text, kw) ==
    \E i \in 1..Len(text) :
        /\ text[i] = ";"
        /\ \E j \in (i + 1)..(Len(text) - Len(kw) + 1) :
            /\ \A k \in (i + 1)..(j - 1) : text[k] # "\n"
            /\ \A m \in 1..Len(kw) : LowerChar(text[j + m - 1]) = kw[m]

\* re.search(r'--\s', text, re.IGNORECASE)
SearchDashDashSpace(text) ==
    \E i \in 1..(Len(text) - 2) :
        text[i] = "-" /\ text[i + 1] = "-" /\ text[i + 2] \in Whitespace

suspicious_patterns(text) ==
    \/ SearchSemicolonKeyword(text, <<"d", "r", "o", "p">>)
    \/ SearchSemicolonKeyword(text, <<"d", "e", "l", "e", "t", "e">>)
    \/ SearchSemicolonKeyword(text, <<"u", "p", "d", "a", "t", "e">>)
    \/ SearchDashDashSpace(text)

\* the depth loop: max_observed_depth after the characters of text; current_depth may
\* go below zero
RECURSIVE DepthScan(_, _, _)
DepthScan(text, current_depth, max_observed_depth) ==
    IF text = <<>> THEN max_observed_depth
    ELSE IF Head(text) = "(" THEN
        DepthScan(Tail(text), current_depth + 1, Max(max_observed_depth, current_depth + 1))
    ELSE IF Head(text) = ")" THEN
        DepthScan(Tail(text), current_depth - 1, max_observed_depth)
    ELSE DepthScan(Tail(text), current_depth, max_observed_depth)

max_observed_depth_of(text) == DepthScan(text, 0, 0)

GraphPatternError == "GraphPatternError"

\* whether sanitize_pattern raises GraphPatternError on the characters of a pattern
sanitize_raises(text, ceiling) ==
    \/ Count(text, "(") # Count(text, ")")
    \/ max_observed_depth_of(text) > ceiling
    \/ suspicious_patterns(text)

\* sanitize_pattern on a token text: it raises, or returns the pattern as it came
sanitize_pattern(tokens, ceiling) ==
    IF sanitize_raises(Spell(tokens), ceiling)
    THEN [raised |-> TRUE, value |-> <<>>]
    ELSE [raised |-> FALSE, value |-> tokens]

(***************************************************************************)
(* Facts: a fact is the sequence of its elements, connector first.         *)
(* hedge() and Hyperedge.to_str() convert between a fact and its text.     *)
(***************************************************************************)
RECURSIVE JoinAtoms(_)
JoinAtoms(edge) ==
    IF Len(edge) <= 1 THEN edge
    ELSE <<Head(edge), " ">> \o JoinAtoms(Tail(edge))

to_str(edge) == <<"(">> \o JoinAtoms(edge) \o <<")">>

hedge(tokens) == SelectSeq(tokens, LAMBDA tok : tok \notin {"(", ")", " "})

\* Hyperedge.atoms(), in order of first occurrence
RECURSIVE atoms_seq(_, _)
atoms_seq(edge, seen) ==
    IF edge = <<>> THEN <<>>
    ELSE IF Head(edge) \in seen THEN atoms_seq(Tail(edge), seen)
    ELSE <<Head(edge)>> \o atoms_seq(Tail(edge), seen \cup {Head(edge)})

atoms(edge) == Range(edge)

contra_ibuprofen == <<"contraindicated/P", "ibuprofen/C", "diabetes/C">>
rec_ibuprofen == <<"recommended/P", "ibuprofen/C", "diabetes/C">>
req_allergy_test == <<"required/P", "allergy_test/C", "new_medication/C">>
req_ibuprofen == <<"required/P", "ibuprofen/C", "diabetes/C">>
req_new_medication == <<"required/P", "new_medication/C", "diabetes/C">>
note_dashes == <<"note/P", "x--", "diabetes/C">>
user_diabetes == <<"a/P", "user/C", "diabetes/C">>
takes_ibuprofen == <<"takes/P", "patient/C", "ibuprofen/C">>
takes_new_medication == <<"takes/P", "patient/C", "new_medication/C">>
takes_both == <<"takes/P", "ibuprofen/C", "new_medication/C">>
forbidden_required == <<"forbidden_required/P", "patient/C", "ibuprofen/C">>

(***************************************************************************)
(* Attribute maps: the recognised keys; None stands for an absent key.     *)
(* Values are stored as strings (set_attribute(edge, key, str(value))).    *)
(***************************************************************************)
NoAttrs == [layer |-> None, mandatory |-> None, confidence |-> None]

Attrs(l, m, c) == [layer |-> l, mandatory |-> m, confidence |-> c]

ValueChars ==
    "True" :> <<"T", "r", "u", "e">> @@ "False" :> <<"F", "a", "l", "s", "e">>

\* float(value), scaled by 100; any other string makes float() raise ValueError
ParseFloat ==
    "0.98" :> 98 @@ "0.5" :> 50 @@ "1.0" :> 100

ValueError == "ValueError"

float_raises(value) == value \notin DOMAIN ParseFloat

float(value) == ParseFloat[value]

(***************************************************************************)
(* The fact store adapter (hg): add, remove, exists, search, all,          *)
(* get_attributes, set_attribute.                                          *)
(***************************************************************************)
\* what the backend raises when a call of it fails, and what query wraps it in
AdapterError == "Exception"
StoreError == "StoreError"

NoFault == [op |-> None, arg |-> <<>>]

\* the calls of the adapter that fail while the fault lasts
hg_all_raises == fault.op = "all"
hg_search_raises(pat) == fault.op = "search" /\ fault.arg = pat
hg_get_attributes_raises(edge) == fault.op = "get_attributes" /\ fault.arg = edge

hg_all(s) == [i \in 1..Len(s) |-> s[i].edge]

hg_exists(s, edge) == \E i \in 1..Len(s) : s[i].edge = edge

\* optional<map>: <<>> for a fact the store does not hold, else <<its attribute map>>
hg_get_attributes(s, edge) ==
    IF hg_exists(s, edge)
    THEN <<(CHOOSE e \in Range(s) : e.edge = edge).attrs>>
    ELSE <<>>

hg_add(s, edge) ==
    IF hg_exists(s, edge) THEN s ELSE Append(s, [edge |-> edge, attrs |-> NoAttrs])

hg_set_attribute(s, edge, key, value) ==
    [i \in 1..Len(s) |->
        IF s[i].edge = edge THEN [s[i] EXCEPT !.attrs[key] = value] ELSE s[i]]

hg_remove(s, edge) == SelectSeq(s, LAMBDA entry : entry.edge # edge)

\* a pattern position holds "*" (any element) or the element itself
Matches(pat, edge) ==
    /\ Len(pat) = Len(edge)
    /\ \A i \in 1..Len(pat) : pat[i] = "*" \/ pat[i] = edge[i]

hg_search(s, pat) == SelectSeq(hg_all(s), LAMBDA edge : Matches(pat, edge))

(***************************************************************************)
(* GraphbrainAPI read operations (api/core.py).                            *)
(***************************************************************************)
\* query without the sanitizer call, whatever the sanitize flag says
api_query_unsanitized(s, pattern_text, lim, sanitize) ==
    IF hg_search_raises(hedge(pattern_text))
    THEN [raised |-> TRUE, error |-> StoreError, edges |-> <<>>,
          searched |-> {[pattern |-> pattern_text, sanitize |-> sanitize]}]
    ELSE [raised |-> FALSE, error |-> None,
          edges |-> Take(hg_search(s, hedge(pattern_text)), lim),
          searched |-> {[pattern |-> pattern_text, sanitize |-> sanitize]}]

\* GraphbrainAPI.query: the sanitizer's error, or StoreError for a search that failed,
\* or the result list; searched holds the pattern handed to hg.search, with the
\* sanitize flag of the call
api_query(s, pattern_text, lim, sanitize) ==
    IF sanitize /\ sanitize_pattern(pattern_text, DefaultMaxDepth).raised
    THEN [raised |-> TRUE, error |-> GraphPatternError, edges |-> <<>>, searched |-> {}]
    ELSE LET checked == IF sanitize
                        THEN sanitize_pattern(pattern_text, DefaultMaxDepth).value
                        ELSE pattern_text
         IN  IF hg_search_raises(hedge(checked))
             THEN [raised |-> TRUE, error |-> StoreError, edges |-> <<>>,
                   searched |-> {[pattern |-> checked, sanitize |-> sanitize]}]
             ELSE [raised |-> FALSE, error |-> None,
                   edges |-> Take(hg_search(s, hedge(checked)), lim),
                   searched |-> {[pattern |-> checked, sanitize |-> sanitize]}]

all_edges(s, lim) == Take(hg_all(s), lim)

get_attrs(s, edge) == hg_get_attributes(s, edge)

\* a for loop over the keys of attrs that calls hg.set_attribute(edge, key, str(value))
set_attributes(s, edge, attrs) ==
    LET s1 == IF attrs.layer = None THEN s
              ELSE hg_set_attribute(s, edge, "layer", attrs.layer)
        s2 == IF attrs.mandatory = None THEN s1
              ELSE hg_set_attribute(s1, edge, "mandatory", attrs.mandatory)
    IN  IF attrs.confidence = None THEN s2
        ELSE hg_set_attribute(s2, edge, "confidence", attrs.confidence)

(***************************************************************************)
(* _evaluate_edge (api/validation.py): one proposed edge against the rules.*)
(***************************************************************************)
\* the connector tests, each a substring test on connector.lower(): the symbols that pass
is_contraindicated ==
    {a \in Atoms : \/ Contains(Lower(Chars(a)), <<"c", "o", "n", "t", "r", "a", "i", "n", "d">>)
                   \/ Contains(Lower(Chars(a)), <<"f", "o", "r", "b", "i", "d", "d", "e", "n">>)}

\* the last branch as a plain else: every overlapping rule that does not decide is traced
is_recommended_every_connector == Atoms

is_recommended ==
    {a \in Atoms : \/ Contains(Lower(Chars(a)), <<"r", "e", "c", "o", "m", "m", "e", "n", "d">>)
                   \/ Contains(Lower(Chars(a)), <<"a", "d", "v", "i", "s", "e">>)}

\* the obligation test without its second keyword
is_obligatory_oblige_only ==
    {a \in Atoms : Contains(Lower(Chars(a)), <<"o", "b", "l", "i", "g", "e">>)}

is_obligatory ==
    {a \in Atoms : \/ Contains(Lower(Chars(a)), <<"o", "b", "l", "i", "g", "e">>)
                   \/ Contains(Lower(Chars(a)), <<"r", "e", "q", "u", "i", "r", "e">>)}

\* the test without its "/C" part: symbols of every type tag
is_user_condition_any_tag ==
    {a \in Atoms : ~Contains(Lower(Chars(a)), <<"u", "s", "e", "r">>)}

\* "/C" in atom_str and "user" not in atom_str.lower(): the symbols that pass
is_user_condition ==
    {a \in Atoms : /\ Contains(Chars(a), <<"/", "C">>)
                   /\ ~Contains(Lower(Chars(a)), <<"u", "s", "e", "r">>)}

\* the facts the scan of the try block reads before a failing call ends it
RECURSIVE read_before_failure(_)
read_before_failure(edges) ==
    IF edges = <<>> \/ hg_get_attributes_raises(Head(edges)) THEN <<>>
    ELSE <<Head(edges)>> \o read_before_failure(Tail(edges))

scanned_for_context(s) ==
    IF hg_all_raises THEN <<>> ELSE read_before_failure(all_edges(s, ContextScanLimit))

\* a validator that collects no user context
user_conditions_not_collected(s) == {}

\* the scan that enriches the context: the concepts of the facts of layer "user";
\* "except: pass" keeps what was collected when a store call fails
user_conditions(s) ==
    LET scanned == Range(scanned_for_context(s))
        user_edges == {edge \in scanned :
                          /\ get_attrs(s, edge) # <<>>
                          /\ get_attrs(s, edge)[1].layer = "user"}
    IN  {atom \in UNION {atoms(edge) : edge \in user_edges} : atom \in is_user_condition}

\* api.get_attrs(rule) or {}
attrs_or_empty(s, rule) ==
    IF get_attrs(s, rule) = <<>> THEN NoAttrs ELSE get_attrs(s, rule)[1]

\* the flag as a comparison that forgets .lower(): "True" is then not "true"
mandatory_flag_case_sensitive(rule_attrs) ==
    IF rule_attrs.mandatory # None
    THEN ValueChars[rule_attrs.mandatory] = <<"t", "r", "u", "e">>
    ELSE FALSE

\* the mandatory flag of a rule: a string is compared, lower-cased, with "true"
mandatory_flag(rule_attrs) ==
    IF rule_attrs.mandatory # None
    THEN Lower(ValueChars[rule_attrs.mandatory]) = <<"t", "r", "u", "e">>
    ELSE FALSE

\* float(rule_attrs.get("confidence", 1.0))
confidence_raises(rule_attrs) ==
    rule_attrs.confidence # None /\ float_raises(rule_attrs.confidence)

confidence_of(rule_attrs) ==
    IF rule_attrs.confidence = None THEN 100 ELSE float(rule_attrs.confidence)

\* the overlap test passed by a single shared symbol
significant_overlap_of_one(total_overlap) == Cardinality(total_overlap) >= 1

\* len(total_overlap) >= 2
significant_overlap(total_overlap) == Cardinality(total_overlap) >= 2

\* the entry with matched_concepts taken from the proposal alone
trace_entry_direct_only(rule, rule_attrs, direct_overlap, context_overlap) ==
    [rule |-> to_str(rule),
     connector |-> rule[1],
     layer |-> rule_attrs.layer,
     mandatory |-> mandatory_flag(rule_attrs),
     confidence |-> confidence_of(rule_attrs),
     matched_concepts |-> direct_overlap,
     direct_match |-> direct_overlap,
     user_context |-> context_overlap]

trace_entry(rule, rule_attrs, direct_overlap, context_overlap) ==
    [rule |-> to_str(rule),
     connector |-> rule[1],
     layer |-> rule_attrs.layer,
     mandatory |-> mandatory_flag(rule_attrs),
     confidence |-> confidence_of(rule_attrs),
     matched_concepts |-> direct_overlap \cup context_overlap,
     direct_match |-> direct_overlap,
     user_context |-> context_overlap]

Evaluated(decision, why_trace) ==
    [raised |-> FALSE, error |-> None, decision |-> decision, why_trace |-> why_trace]

EvaluationRaised(err) ==
    [raised |-> TRUE, error |-> err, decision |-> None, why_trace |-> <<>>]

\* the last return with a strategy that matters: tri_state gives UNKNOWN without a match
decision_without_trace_by_strategy(strat) == IF strat = "simple" THEN "ALLOW" ELSE "UNKNOWN"

\* "ALLOW" if strategy == "simple" else "ALLOW"
decision_without_trace(strat) == IF strat = "simple" THEN "ALLOW" ELSE "ALLOW"

\* the for loop over the rules, from rule i on, and the fall-through after it
RECURSIVE rule_loop(_, _, _, _, _, _, _)
rule_loop(s, proposed_concepts, user_cond, rule_list, i, why_trace, strat) ==
    IF i > Len(rule_list)
    THEN IF why_trace # <<>>
         THEN Evaluated("ALLOW", why_trace)
         ELSE Evaluated(decision_without_trace(strat), why_trace)
    ELSE
      LET rule == rule_list[i]
          rule_concepts == atoms(rule)
          direct_overlap == proposed_concepts \cap rule_concepts
          context_overlap == user_cond \cap rule_concepts
          total_overlap == direct_overlap \cup context_overlap
          rule_attrs == attrs_or_empty(s, rule)
          connector == rule[1]
          mandatory == mandatory_flag(rule_attrs)
          entry == trace_entry(rule, rule_attrs, direct_overlap, context_overlap)
      IN  IF ~significant_overlap(total_overlap)
          THEN rule_loop(s, proposed_concepts, user_cond, rule_list, i + 1, why_trace, strat)
          ELSE IF hg_get_attributes_raises(rule)
          THEN EvaluationRaised(AdapterError)
          ELSE IF confidence_raises(rule_attrs)
          THEN EvaluationRaised(ValueError)
          ELSE IF connector \in is_contraindicated /\ mandatory
          THEN Evaluated("DENY", Append(why_trace, entry))
          ELSE IF connector \in is_obligatory /\ mandatory
          THEN Evaluated("UNKNOWN", Append(why_trace, entry))
          ELSE IF connector \in is_recommended
          THEN rule_loop(s, proposed_concepts, user_cond, rule_list, i + 1,
                         Append(why_trace, entry), strat)
          ELSE rule_loop(s, proposed_concepts, user_cond, rule_list, i + 1, why_trace, strat)

\* the attribute read without its "or {}": a selected rule the store no longer holds
\* gives None, and None.get raises
evaluate_edge_unguarded(s, proposed, rule_list, strat) ==
    IF \E i \in 1..Len(rule_list) :
          /\ get_attrs(s, rule_list[i]) = <<>>
          /\ significant_overlap((atoms(proposed) \cup user_conditions(s))
                                     \cap atoms(rule_list[i]))
    THEN EvaluationRaised("AttributeError")
    ELSE rule_loop(s, atoms(proposed), user_conditions(s), rule_list, 1, <<>>, strat)

evaluate_edge(s, proposed, rule_list, strat) ==
    rule_loop(s, atoms(proposed), user_conditions(s), rule_list, 1, <<>>, strat)

(***************************************************************************)
(* validate_edges_against_rules (api/validation.py): rule selection, the   *)
(* items of the three lists and the overall decision.                      *)
(***************************************************************************)
Selected(edges, searched) ==
    [raised |-> FALSE, error |-> None, edges |-> edges, searched |-> searched]

SelectionRaised(err, searched) ==
    [raised |-> TRUE, error |-> err, edges |-> <<>>, searched |-> searched]

InLayers(s, active, edge) ==
    get_attrs(s, edge) # <<>> /\ get_attrs(s, edge)[1].layer \in active

\* a selection that falls back on the foundation layer when no layer is active
select_rules_foundation_by_default(s, toggled, rp, ls) ==
    IF rp # <<>>
    THEN api_query(s, rp, 0, TRUE)
    ELSE LET active == IF ls # <<>> THEN Range(ls)
                       ELSE IF toggled # {} THEN toggled ELSE {"foundation"}
         IN  IF \/ hg_all_raises
                \/ \E edge \in Range(all_edges(s, RuleScanLimit)) :
                       hg_get_attributes_raises(edge)
             THEN SelectionRaised(AdapterError, {})
             ELSE Selected(SelectSeq(all_edges(s, RuleScanLimit),
                                     LAMBDA edge : InLayers(s, active, edge)), {})

\* "if rule_pattern: rules = api.query(rule_pattern) else: the facts of the active layers"
select_rules(s, toggled, rp, ls) ==
    IF rp # <<>>
    THEN api_query(s, rp, 0, TRUE)
    ELSE LET active == IF ls # <<>> THEN Range(ls) ELSE toggled
         IN  IF \/ hg_all_raises
                \/ \E edge \in Range(all_edges(s, RuleScanLimit)) :
                       hg_get_attributes_raises(edge)
             THEN SelectionRaised(AdapterError, {})
             ELSE Selected(SelectSeq(all_edges(s, RuleScanLimit),
                                     LAMBDA edge : InLayers(s, active, edge)), {})

\* confidence of a rule in the filter: "float(attrs.get("confidence", 1.0)) if attrs else 1.0"
filter_raises(s, rule) ==
    get_attrs(s, rule) # <<>> /\ confidence_raises(get_attrs(s, rule)[1])

\* the filter with a default of 0.0 for a rule without a confidence
filter_confidence_default_zero(s, rule) ==
    IF get_attrs(s, rule) = <<>> \/ get_attrs(s, rule)[1].confidence = None
    THEN 0
    ELSE confidence_of(get_attrs(s, rule)[1])

filter_confidence(s, rule) ==
    IF get_attrs(s, rule) = <<>> THEN 100 ELSE confidence_of(get_attrs(s, rule)[1])

\* "if confidence_min > 0.0": keep the rules with confidence >= confidence_min
RECURSIVE filter_rules(_, _, _, _)
filter_rules(s, rule_list, cmin, searched) ==
    IF rule_list = <<>> THEN Selected(<<>>, searched)
    ELSE IF hg_get_attributes_raises(Head(rule_list))
    THEN SelectionRaised(AdapterError, searched)
    ELSE IF filter_raises(s, Head(rule_list)) THEN SelectionRaised(ValueError, searched)
    ELSE LET rest == filter_rules(s, Tail(rule_list), cmin, searched)
         IN  IF rest.raised THEN rest
             ELSE IF filter_confidence(s, Head(rule_list)) >= cmin
             THEN Selected(<<Head(rule_list)>> \o rest.edges, searched)
             ELSE rest

\* a selection in a try block of its own: a failure selects no rule
rules_to_check_best_effort(s, toggled, rp, ls, cmin) ==
    LET chosen == select_rules(s, toggled, rp, ls)
    IN  IF chosen.raised THEN Selected(<<>>, chosen.searched)
        ELSE IF cmin > 0 THEN filter_rules(s, chosen.edges, cmin, chosen.searched)
        ELSE chosen

\* the filter run for every confidence_min: "if confidence_min >= 0.0"
rules_to_check_always_filtered(s, toggled, rp, ls, cmin) ==
    LET chosen == select_rules(s, toggled, rp, ls)
    IN  IF chosen.raised THEN chosen
        ELSE filter_rules(s, chosen.edges, cmin, chosen.searched)

\* lines 32-51: the rules the call checks, or the error that ends it
rules_to_check(s, toggled, rp, ls, cmin) ==
    LET chosen == select_rules(s, toggled, rp, ls)
    IN  IF chosen.raised THEN chosen
        ELSE IF cmin > 0 THEN filter_rules(s, chosen.edges, cmin, chosen.searched)
        ELSE chosen

kept_item(proposed, why_trace) ==
    [edge |-> proposed, edge_str |-> to_str(proposed), why_trace |-> why_trace]

rejected_item(proposed, why_trace) ==
    [edge |-> proposed, edge_str |-> to_str(proposed),
     reason |-> "contraindicated or forbidden by rules", why_trace |-> why_trace]

unknown_item(proposed, why_trace) ==
    [edge |-> proposed, edge_str |-> to_str(proposed),
     reason |-> "insufficient information",
     suggestions |-> <<"add more context", "clarify user conditions">>,
     why_trace |-> why_trace]

\* the decision with the two tests in the other order: UNKNOWN before DENY
overall_decision_unknown_first(rejected_list, unknown_list) ==
    IF unknown_list # <<>> THEN "UNKNOWN"
    ELSE IF rejected_list # <<>> THEN "DENY"
    ELSE "ALLOW"

\* lines 82-88
overall_decision(rejected_list, unknown_list) ==
    IF rejected_list # <<>> THEN "DENY"
    ELSE IF unknown_list # <<>> THEN "UNKNOWN"
    ELSE "ALLOW"

ValidationReport(kept_list, rejected_list, unknown_list, rule_list) ==
    [decision |-> overall_decision(rejected_list, unknown_list),
     kept |-> kept_list,
     rejected |-> rejected_list,
     unknown |-> unknown_list,
     rules_checked |-> Len(rule_list)]

(***************************************************************************)
(* The state after construction, and the values a finished call leaves.    *)
(***************************************************************************)
NoQuery == [kind |-> None, value |-> <<>>]

NotSanitized == [called |-> FALSE, raised |-> FALSE, value |-> <<>>]

ValidatorAtRest ==
    /\ proposed_edges = <<>>
    /\ rule_pattern = <<>>
    /\ layers = <<>>
    /\ confidence_min = 0
    /\ strategy = "tri_state"
    /\ rules = <<>>
    /\ next_edge = 1
    /\ kept = <<>>
    /\ rejected = <<>>
    /\ unknown = <<>>
    /\ report = <<>>
    /\ previous_report = <<>>

WalkerAtRest ==
    /\ query = NoQuery
    /\ hops = 0
    /\ limit = 0
    /\ visited = {}
    /\ results = <<>>
    /\ queue = <<>>

SanitizerAtRest ==
    /\ pattern = <<>>
    /\ max_depth = DefaultMaxDepth
    /\ sanitized = NotSanitized

\* a backend that works, and a call nobody cancelled or wrote under
EnvironmentAtRest ==
    /\ fault = NoFault
    /\ cancel_requested = FALSE
    /\ writes = 0

\* GraphbrainAPI.__init__: an empty store behind hg, no layer toggled on
Init ==
    /\ store = <<>>
    /\ active_layers = {}
    /\ pc = "idle"
    /\ error = None
    /\ searches = {}
    /\ ValidatorAtRest
    /\ WalkerAtRest
    /\ SanitizerAtRest
    /\ EnvironmentAtRest

(***************************************************************************)
(* The write operations of GraphbrainAPI (api/core.py), called between     *)
(* two read calls of the single-threaded client.                           *)
(***************************************************************************)
FoundationPack ==
    { [s |-> to_str(contra_ibuprofen), attrs |-> Attrs("foundation", "True", "0.98")],
      [s |-> to_str(rec_ibuprofen), attrs |-> Attrs("foundation", "False", None)],
      [s |-> to_str(req_ibuprofen), attrs |-> Attrs("foundation", "True", "0.5")],
      [s |-> to_str(req_new_medication), attrs |-> Attrs("foundation", "True", None)],
      [s |-> to_str(req_allergy_test), attrs |-> Attrs("foundation", "True", None)] }

UserTexts == {"diabetes"}

\* "user" and the concept text.lower().strip().replace(" ", "-"), typed by add_edge
UserConcept == "diabetes" :> "diabetes/C"

AttributeUpdates ==
    { [edge |-> contra_ibuprofen, attrs |-> Attrs(None, "False", None)],
      [edge |-> rec_ibuprofen, attrs |-> Attrs(None, None, "bad")] }

ToggleLayerNames == {"foundation"}

\* add_edge_from_string / add_rule / one entry of bulk_add
add_edge_from_string ==
    \E entry \in FoundationPack :
        /\ pc = "idle"
        /\ hg_exists(store, hedge(entry.s)) \/ Len(store) < MaxStore
        /\ store' = set_attributes(hg_add(store, hedge(entry.s)), hedge(entry.s), entry.attrs)
        /\ UNCHANGED <<active_layers, pc, error, searches, val_vars, walk_vars, san_vars, env_vars>>

\* add_user_fact: (a/P user/C <concept>/C) with layer "user"
add_user_fact ==
    \E text \in UserTexts :
        LET edge == <<"a/P", "user/C", UserConcept[text]>>
        IN  /\ pc = "idle"
            /\ hg_exists(store, edge) \/ Len(store) < MaxStore
            /\ store' = set_attributes(hg_add(store, edge), edge, Attrs("user", None, None))
            /\ UNCHANGED <<active_layers, pc, error, searches, val_vars, walk_vars, san_vars, env_vars>>

set_attrs ==
    \E update \in AttributeUpdates :
        /\ pc = "idle"
        /\ hg_exists(store, update.edge)
        /\ store' = set_attributes(store, update.edge, update.attrs)
        /\ store' # store
        /\ UNCHANGED <<active_layers, pc, error, searches, val_vars, walk_vars, san_vars, env_vars>>

remove ==
    \E edge \in Range(hg_all(store)) :
        /\ pc = "idle"
        /\ store' = hg_remove(store, edge)
        /\ UNCHANGED <<active_layers, pc, error, searches, val_vars, walk_vars, san_vars, env_vars>>

toggle_layer ==
    \E layer \in ToggleLayerNames, enabled \in BOOLEAN :
        /\ pc = "idle"
        /\ active_layers' = IF enabled THEN active_layers \cup {layer}
                            ELSE active_layers \ {layer}
        /\ active_layers' # active_layers
        /\ UNCHANGED <<store, pc, error, searches, val_vars, walk_vars, san_vars, env_vars>>

(***************************************************************************)
(* validate_edges_against_rules as the client runs it.                     *)
(***************************************************************************)
\* the proposed_edges argument: one text, or a list of texts
ProposedArgs ==
    LET texts == {to_str(takes_ibuprofen), to_str(takes_new_medication)}
    IN  {[kind |-> "str", value |-> t] : t \in texts}
        \cup {[kind |-> "list", value |-> l] :
                 l \in UNION {[1..n -> texts] : n \in 0..MaxBatch}}

contraindicated_pattern == <<"(", "contraindicated/P", " ", "*", " ", "*", ")">>
unbalanced_pattern == <<"(", "contraindicated/P", " ", "(", "*", " ", "*", ")">>

\* the other arguments of a call: a rule pattern, or layers, or a confidence floor
ValidateArgs ==
    {a \in [rule_pattern : {<<>>, contraindicated_pattern, unbalanced_pattern},
            layers : {<<>>, <<"foundation", "user">>},
            confidence_min : {0, 90}] :
        /\ a.rule_pattern # <<>> => a.layers = <<>>
        /\ a.confidence_min # 0 => a.rule_pattern = <<>> /\ a.layers = <<>>}

\* lines 22-30: normalise to a list, convert the texts to facts
normalise(arg) ==
    LET as_list == IF arg.kind = "list" THEN arg.value ELSE <<arg.value>>
    IN  [i \in 1..Len(as_list) |-> hedge(as_list[i])]

\* the searches of a call, each with the function that made it
searches_by(caller, searched) ==
    {[pattern |-> q.pattern, sanitize |-> q.sanitize, caller |-> caller] : q \in searched}

\* lines 22-55: the call up to the for loop over the proposed edges
begin_validation(batch, rp, ls, cmin, strat, before) ==
    LET selection == rules_to_check(store, active_layers, rp, ls, cmin)
    IN  /\ proposed_edges' = batch
        /\ rule_pattern' = rp
        /\ layers' = ls
        /\ confidence_min' = cmin
        /\ strategy' = strat
        /\ next_edge' = 1
        /\ kept' = <<>>
        /\ rejected' = <<>>
        /\ unknown' = <<>>
        /\ report' = <<>>
        /\ previous_report' = before
        /\ searches' = searches_by("validate_edges_against_rules", selection.searched)
        /\ rules' = selection.edges
        /\ pc' = IF selection.raised THEN "raised" ELSE "validate"
        /\ error' = selection.error
        /\ UNCHANGED <<api_vars, walk_vars, san_vars, env_vars>>

\* a first call, with the default strategy
ValidateCall ==
    /\ pc = "idle"
    /\ \E arg \in ProposedArgs, a \in ValidateArgs :
          begin_validation(normalise(arg), a.rule_pattern, a.layers, a.confidence_min,
                           "tri_state", <<>>)

\* lines 60-80: the list the edge decision sends the proposed edge to
kept_after(kept_list, proposed, outcome) ==
    IF ~outcome.raised /\ outcome.decision = "ALLOW"
    THEN Append(kept_list, kept_item(proposed, outcome.why_trace))
    ELSE kept_list

rejected_after(rejected_list, proposed, outcome) ==
    IF ~outcome.raised /\ outcome.decision = "DENY"
    THEN Append(rejected_list, rejected_item(proposed, outcome.why_trace))
    ELSE rejected_list

\* the else branch as it would run were the DENY test an "if", not an "elif"
unknown_after_second_if(unknown_list, proposed, outcome) ==
    IF ~outcome.raised /\ outcome.decision # "DENY"
    THEN Append(unknown_list, unknown_item(proposed, outcome.why_trace))
    ELSE unknown_list

unknown_after(unknown_list, proposed, outcome) ==
    IF ~outcome.raised /\ outcome.decision # "ALLOW" /\ outcome.decision # "DENY"
    THEN Append(unknown_list, unknown_item(proposed, outcome.why_trace))
    ELSE unknown_list

\* lines 57-80: one turn of the for loop
EvaluateProposed ==
    /\ pc = "validate"
    /\ next_edge <= Len(proposed_edges)
    /\ LET proposed == proposed_edges[next_edge]
           outcome == evaluate_edge(store, proposed, rules, strategy)
       IN  /\ pc' = IF outcome.raised THEN "raised" ELSE "validate"
           /\ error' = outcome.error
           /\ next_edge' = next_edge + 1
           /\ kept' = kept_after(kept, proposed, outcome)
           /\ rejected' = rejected_after(rejected, proposed, outcome)
           /\ unknown' = unknown_after(unknown, proposed, outcome)
    /\ UNCHANGED <<api_vars, proposed_edges, rule_pattern, layers, confidence_min, strategy,
                   rules, report, previous_report, searches, walk_vars, san_vars, env_vars>>

\* the return of a validator that clears the toggled layers it read
ValidateReturnClearingLayers ==
    /\ pc = "validate"
    /\ next_edge > Len(proposed_edges)
    /\ report' = <<ValidationReport(kept, rejected, unknown, rules)>>
    /\ pc' = "validated"
    /\ active_layers' = {}
    /\ UNCHANGED <<store, error, proposed_edges, rule_pattern, layers, confidence_min,
                   strategy, rules, next_edge, kept, rejected, unknown, previous_report,
                   searches, walk_vars, san_vars, env_vars>>

\* lines 82-96: the overall decision and the report
ValidateReturn ==
    /\ pc = "validate"
    /\ next_edge > Len(proposed_edges)
    /\ report' = <<ValidationReport(kept, rejected, unknown, rules)>>
    /\ pc' = "validated"
    /\ UNCHANGED <<api_vars, error, proposed_edges, rule_pattern, layers, confidence_min,
                   strategy, rules, next_edge, kept, rejected, unknown, previous_report,
                   searches, walk_vars, san_vars, env_vars>>

\* the client repeats the call it just got a report from, with either strategy and
\* nothing done in between
ValidateAgain ==
    /\ pc = "validated"
    /\ previous_report = <<>>
    /\ \E strat \in {"tri_state", "simple"} :
          begin_validation(proposed_edges, rule_pattern, layers, confidence_min, strat, report)

(***************************************************************************)
(* search_with_reasoning and find_neighbors (api/graph_ops.py).            *)
(***************************************************************************)
\* f"(* {atom_str} *)"
wildcard_pattern(atom) == <<"(", "*", " ", atom, " ", "*", ")">>

Min(a, b) == IF a <= b THEN a ELSE b

\* seq[:n]
Slice(seq, n) == SubSeq(seq, 1, Min(n, Len(seq)))

\* api.query(f"(* {atom_str} *)", limit=20, sanitize=False)
related(s, atom) == api_query(s, wildcard_pattern(atom), NeighborQueryLimit, FALSE)

\* the hop test off by one: "<=" for "<"
within_hops_inclusive(dist, hop_limit) == dist <= hop_limit

\* "if dist < hops" / "if dist < max_degree"
within_hops(dist, hop_limit) == dist < hop_limit

\* the queue entries with the path of the current fact left as it is
enqueued_for_same_path(s, seen, current, atom) ==
    LET unseen == SelectSeq(related(s, atom).edges, LAMBDA edge : to_str(edge) \notin seen)
    IN  [i \in 1..Len(unseen) |->
            [edge |-> unseen[i], dist |-> current.dist + 1, path |-> current.path]]

\* the queue entries one symbol of the current fact adds in search_with_reasoning
enqueued_for(s, seen, current, atom) ==
    LET unseen == SelectSeq(related(s, atom).edges, LAMBDA edge : to_str(edge) \notin seen)
    IN  [i \in 1..Len(unseen) |->
            [edge |-> unseen[i], dist |-> current.dist + 1,
             path |-> Append(current.path, unseen[i])]]

\* the loop over the symbols with the try block around it: the first failing search
\* ends the expansion of the fact
RECURSIVE expansion_ended_by_failure(_, _, _, _)
expansion_ended_by_failure(s, seen, current, atoms_left) ==
    IF atoms_left = <<>> \/ related(s, Head(atoms_left)).raised THEN <<>>
    ELSE enqueued_for(s, seen, current, Head(atoms_left))
         \o expansion_ended_by_failure(s, seen, current, Tail(atoms_left))

\* the for loop over current.atoms(), from the symbols left; a symbol whose search
\* fails adds nothing ("except: continue")
RECURSIVE expansion(_, _, _, _)
expansion(s, seen, current, atoms_left) ==
    IF atoms_left = <<>> THEN <<>>
    ELSE enqueued_for(s, seen, current, Head(atoms_left))
         \o expansion(s, seen, current, Tail(atoms_left))

\* a walk that never skips the head of the queue
already_visited_never(seen, current) == FALSE

\* whether the head of the queue is skipped: its text is in visited
already_visited(seen, current) == to_str(current.edge) \in seen

\* visited after the head of the queue was taken and found new
mark_visited(seen, current) == seen \cup {to_str(current.edge)}

result_record(s, current) ==
    [edge |-> current.edge,
     edge_str |-> to_str(current.edge),
     distance |-> current.dist,
     path |-> [i \in 1..Len(current.path) |-> to_str(current.path[i])],
     attrs |-> get_attrs(s, current.edge)]

searches_of_expansion(s, current, caller) ==
    searches_by(caller, UNION {related(s, atom).searched : atom \in atoms(current.edge)})

SearchQueries ==
    { [kind |-> "str", value |-> to_str(takes_ibuprofen)],
      [kind |-> "str", value |-> to_str(note_dashes)],
      [kind |-> "Hyperedge", value |-> note_dashes],
      [kind |-> "Hyperedge", value |-> contra_ibuprofen],
      [kind |-> "Hyperedge", value |-> takes_both],
      [kind |-> "Hyperedge", value |-> <<"takes/P", "patient/C", "allergy_test/C">>] }

NeighborNodes ==
    { [kind |-> "str", value |-> <<"ibuprofen/C">>],
      [kind |-> "Hyperedge", value |-> contra_ibuprofen] }

LimitArgs == {1, MaxLimit}

\* lines 16-21: the seed, sanitized when it is a text, and the first queue
search_with_reasoning(q, h, l) ==
    LET rejects == q.kind = "str" /\ sanitize_pattern(q.value, DefaultMaxDepth).raised
        seed == IF q.kind = "str"
                THEN hedge(sanitize_pattern(q.value, DefaultMaxDepth).value)
                ELSE q.value
    IN  /\ pc = "idle"
        /\ query' = q
        /\ hops' = h
        /\ limit' = l
        /\ visited' = {}
        /\ results' = <<>>
        /\ queue' = IF rejects THEN <<>>
                    ELSE <<[edge |-> seed, dist |-> 0, path |-> <<seed>>]>>
        /\ pc' = IF rejects THEN "raised" ELSE "search_with_reasoning"
        /\ error' = IF rejects THEN GraphPatternError ELSE None
        /\ searches' = {}
        /\ UNCHANGED <<api_vars, val_vars, san_vars, env_vars>>

SearchCall ==
    \E q \in SearchQueries, h \in 0..MaxHops, l \in LimitArgs : search_with_reasoning(q, h, l)

\* a loop turn that reads queue[0] and leaves a visited head in the queue
SearchStepPeeking ==
    /\ pc = "search_with_reasoning"
    /\ queue # <<>> /\ Len(results) < limit
    /\ LET current == Head(queue)
       IN  IF already_visited(visited, current)
           THEN UNCHANGED <<queue, visited, results, searches, pc, error>>
           ELSE IF hg_get_attributes_raises(current.edge)
           THEN /\ queue' = Tail(queue)
                /\ visited' = mark_visited(visited, current)
                /\ pc' = "raised"
                /\ error' = AdapterError
                /\ UNCHANGED <<results, searches>>
           ELSE /\ visited' = mark_visited(visited, current)
                /\ results' = Append(results, result_record(store, current))
                /\ UNCHANGED <<pc, error>>
                /\ IF within_hops(current.dist, hops)
                   THEN /\ queue' = Tail(queue)
                                    \o expansion(store, visited', current,
                                                 atoms_seq(current.edge, {}))
                        /\ searches' = searches
                               \cup searches_of_expansion(store, current, "search_with_reasoning")
                   ELSE /\ queue' = Tail(queue)
                        /\ UNCHANGED searches
    /\ UNCHANGED <<api_vars, query, hops, limit, val_vars, san_vars, env_vars>>

\* a loop turn that puts the new entries in front of the queue: a depth-first walk
SearchStepDepthFirst ==
    /\ pc = "search_with_reasoning"
    /\ queue # <<>> /\ Len(results) < limit
    /\ LET current == Head(queue)
       IN  IF already_visited(visited, current)
           THEN /\ queue' = Tail(queue)
                /\ UNCHANGED <<visited, results, searches, pc, error>>
           ELSE IF hg_get_attributes_raises(current.edge)
           THEN /\ queue' = Tail(queue)
                /\ visited' = mark_visited(visited, current)
                /\ pc' = "raised"
                /\ error' = AdapterError
                /\ UNCHANGED <<results, searches>>
           ELSE /\ visited' = mark_visited(visited, current)
                /\ results' = Append(results, result_record(store, current))
                /\ UNCHANGED <<pc, error>>
                /\ IF within_hops(current.dist, hops)
                   THEN /\ queue' = expansion(store, visited', current,
                                              atoms_seq(current.edge, {}))
                                    \o Tail(queue)
                        /\ searches' = searches
                               \cup searches_of_expansion(store, current, "search_with_reasoning")
                   ELSE /\ queue' = Tail(queue)
                        /\ UNCHANGED searches
    /\ UNCHANGED <<api_vars, query, hops, limit, val_vars, san_vars, env_vars>>

\* lines 23-49: one turn of the while loop
SearchStep ==
    /\ pc = "search_with_reasoning"
    /\ queue # <<>> /\ Len(results) < limit
    /\ LET current == Head(queue)
       IN  IF already_visited(visited, current)
           THEN /\ queue' = Tail(queue)
                /\ UNCHANGED <<visited, results, searches, pc, error>>
           ELSE IF hg_get_attributes_raises(current.edge)
           THEN /\ queue' = Tail(queue)
                /\ visited' = mark_visited(visited, current)
                /\ pc' = "raised"
                /\ error' = AdapterError
                /\ UNCHANGED <<results, searches>>
           ELSE /\ visited' = mark_visited(visited, current)
                /\ results' = Append(results, result_record(store, current))
                /\ UNCHANGED <<pc, error>>
                /\ IF within_hops(current.dist, hops)
                   THEN /\ queue' = Tail(queue)
                                    \o expansion(store, visited', current,
                                                 atoms_seq(current.edge, {}))
                        /\ searches' = searches
                               \cup searches_of_expansion(store, current, "search_with_reasoning")
                   ELSE /\ queue' = Tail(queue)
                        /\ UNCHANGED searches
    /\ UNCHANGED <<api_vars, query, hops, limit, val_vars, san_vars, env_vars>>

\* the return of a walk that saves its seed to the store
SearchReturnSavingSeed ==
    /\ pc = "search_with_reasoning"
    /\ ~(queue # <<>> /\ Len(results) < limit)
    /\ results' = Slice(results, limit)
    /\ pc' = "searched"
    /\ store' = IF results # <<>> THEN hg_add(store, results[1].edge) ELSE store
    /\ UNCHANGED <<active_layers, error, query, hops, limit, visited, queue, searches,
                   val_vars, san_vars, env_vars>>

\* line 51: return results[:limit]
SearchReturn ==
    /\ pc = "search_with_reasoning"
    /\ ~(queue # <<>> /\ Len(results) < limit)
    /\ results' = Slice(results, limit)
    /\ pc' = "searched"
    /\ UNCHANGED <<api_vars, error, query, hops, limit, visited, queue, searches,
                   val_vars, san_vars, env_vars>>

\* node.startswith('(')
starts_with_paren(tokens) == tokens # <<>> /\ Head(Spell(tokens)) = "("

\* lines 61-66: the node, wrapped in parentheses when it is a bare text
find_neighbors(node, degree, l) ==
    LET seed == IF node.kind = "str"
                THEN hedge(IF starts_with_paren(node.value) THEN node.value
                           ELSE <<"(">> \o node.value \o <<")">>)
                ELSE node.value
    IN  /\ pc = "idle"
        /\ query' = node
        /\ hops' = degree
        /\ limit' = l
        /\ visited' = {}
        /\ results' = <<>>
        /\ queue' = <<[edge |-> seed, dist |-> 0]>>
        /\ pc' = "find_neighbors"
        /\ searches' = {}
        /\ UNCHANGED <<api_vars, error, val_vars, san_vars, env_vars>>

NeighborsCall ==
    \E node \in NeighborNodes, degree \in 0..MaxHops, l \in LimitArgs :
        find_neighbors(node, degree, l)

neighbor_record(s, current) ==
    [edge |-> current.edge,
     edge_str |-> to_str(current.edge),
     distance |-> current.dist,
     attrs |-> get_attrs(s, current.edge)]

\* the queue entries one symbol of the current fact adds in find_neighbors
connected_for(s, seen, current, atom) ==
    LET unseen == SelectSeq(related(s, atom).edges, LAMBDA edge : to_str(edge) \notin seen)
    IN  [i \in 1..Len(unseen) |-> [edge |-> unseen[i], dist |-> current.dist + 1]]

RECURSIVE neighbor_expansion(_, _, _, _)
neighbor_expansion(s, seen, current, atoms_left) ==
    IF atoms_left = <<>> THEN <<>>
    ELSE connected_for(s, seen, current, Head(atoms_left))
         \o neighbor_expansion(s, seen, current, Tail(atoms_left))

\* lines 68-93: one turn of the while loop
NeighborsStep ==
    /\ pc = "find_neighbors"
    /\ queue # <<>> /\ Len(results) < limit
    /\ LET current == Head(queue)
       IN  IF already_visited(visited, current)
           THEN /\ queue' = Tail(queue)
                /\ UNCHANGED <<visited, results, searches, pc, error>>
           ELSE IF hg_get_attributes_raises(current.edge)
           THEN /\ queue' = Tail(queue)
                /\ visited' = mark_visited(visited, current)
                /\ pc' = "raised"
                /\ error' = AdapterError
                /\ UNCHANGED <<results, searches>>
           ELSE /\ visited' = mark_visited(visited, current)
                /\ results' = Append(results, neighbor_record(store, current))
                /\ UNCHANGED <<pc, error>>
                /\ IF within_hops(current.dist, hops)
                   THEN /\ queue' = Tail(queue)
                                    \o neighbor_expansion(store, visited', current,
                                                          atoms_seq(current.edge, {}))
                        /\ searches' = searches
                               \cup searches_of_expansion(store, current, "find_neighbors")
                   ELSE /\ queue' = Tail(queue)
                        /\ UNCHANGED searches
    /\ UNCHANGED <<api_vars, query, hops, limit, val_vars, san_vars, env_vars>>

\* line 95: return results[:limit]
NeighborsReturn ==
    /\ pc = "find_neighbors"
    /\ ~(queue # <<>> /\ Len(results) < limit)
    /\ results' = Slice(results, limit)
    /\ pc' = "neighbors_found"
    /\ UNCHANGED <<api_vars, error, query, hops, limit, visited, queue, searches,
                   val_vars, san_vars, env_vars>>

(***************************************************************************)
(* The client takes the result (or the exception) of the call it made.     *)
(***************************************************************************)
CallEnd ==
    /\ pc \in {"validated", "searched", "neighbors_found", "raised"}
    /\ pc' = "idle"
    /\ error' = None
    /\ searches' = {}
    /\ proposed_edges' = <<>>
    /\ rule_pattern' = <<>>
    /\ layers' = <<>>
    /\ confidence_min' = 0
    /\ strategy' = "tri_state"
    /\ rules' = <<>>
    /\ next_edge' = 1
    /\ kept' = <<>>
    /\ rejected' = <<>>
    /\ unknown' = <<>>
    /\ report' = <<>>
    /\ previous_report' = <<>>
    /\ query' = NoQuery
    /\ hops' = 0
    /\ limit' = 0
    /\ visited' = {}
    /\ results' = <<>>
    /\ queue' = <<>>
    /\ cancel_requested' = FALSE
    /\ writes' = 0
    /\ UNCHANGED <<api_vars, san_vars, fault>>

Next ==
    \/ add_edge_from_string
    \/ add_user_fact
    \/ set_attrs
    \/ remove
    \/ toggle_layer
    \/ ValidateCall
    \/ EvaluateProposed
    \/ ValidateReturn
    \/ ValidateAgain
    \/ SearchCall
    \/ SearchStep
    \/ SearchReturn
    \/ NeighborsCall
    \/ NeighborsStep
    \/ NeighborsReturn
    \/ CallEnd

Spec == Init /\ [][Next]_vars

(***************************************************************************)
(* The client that only validates, and the client that only walks.         *)
(***************************************************************************)
NextValidate ==
    \/ add_edge_from_string
    \/ add_user_fact
    \/ set_attrs
    \/ remove
    \/ toggle_layer
    \/ ValidateCall
    \/ EvaluateProposed
    \/ ValidateReturn
    \/ CallEnd

SpecValidate == Init /\ [][NextValidate]_vars

NextWalk ==
    \/ add_edge_from_string
    \/ add_user_fact
    \/ set_attrs
    \/ remove
    \/ toggle_layer
    \/ SearchCall
    \/ SearchStep
    \/ SearchReturn
    \/ NeighborsCall
    \/ NeighborsStep
    \/ NeighborsReturn
    \/ CallEnd

SpecWalk == Init /\ [][NextWalk]_vars

\* The walks are synchronous loops: once called, the interpreter runs each turn of
\* the while loop and then the return statement; nothing suspends them.
SpecWalkFair ==
    /\ SpecWalk
    /\ WF_vars(SearchStep) /\ WF_vars(SearchReturn)
    /\ WF_vars(NeighborsStep) /\ WF_vars(NeighborsReturn)

(***************************************************************************)
(* A backend that fails: a search, the enumeration, or the read of one     *)
(* fact's attributes raises until the backend is repaired.                 *)
(***************************************************************************)
search_fault ==
    \E pat \in {<<"*", "ibuprofen/C", "*">>, <<"contraindicated/P", "*", "*">>} :
        /\ pc = "idle"
        /\ fault = NoFault
        /\ fault' = [op |-> "search", arg |-> pat]
        /\ UNCHANGED <<api_vars, pc, error, searches, val_vars, walk_vars, san_vars,
                       cancel_requested, writes>>

fault_repaired ==
    /\ pc = "idle"
    /\ fault # NoFault
    /\ fault' = NoFault
    /\ UNCHANGED <<api_vars, pc, error, searches, val_vars, walk_vars, san_vars,
                   cancel_requested, writes>>

read_fault ==
    \E f \in {[op |-> "all", arg |-> <<>>]}
              \cup {[op |-> "get_attributes", arg |-> edge] :
                       edge \in {req_allergy_test, contra_ibuprofen}} :
        /\ pc = "idle"
        /\ fault = NoFault
        /\ fault' = f
        /\ UNCHANGED <<api_vars, pc, error, searches, val_vars, walk_vars, san_vars,
                       cancel_requested, writes>>

SpecValidateFault ==
    Init /\ [][NextValidate \/ search_fault \/ read_fault \/ fault_repaired]_vars

SpecWalkFault == Init /\ [][NextWalk \/ search_fault \/ fault_repaired]_vars

(***************************************************************************)
(* A caller with a deadline.  The deadline can pass while a call runs; the *)
(* functions take no deadline or cancellation argument and read no such    *)
(* signal, so no step of a call depends on it.                             *)
(***************************************************************************)
request_cancel ==
    /\ pc \in {"validate", "search_with_reasoning"}
    /\ ~cancel_requested
    /\ cancel_requested' = TRUE
    /\ UNCHANGED <<api_vars, pc, error, searches, val_vars, walk_vars, san_vars, fault, writes>>

SpecCancel ==
    Init /\ [][NextValidate \/ SearchCall \/ SearchStep \/ SearchReturn \/ request_cancel]_vars

(***************************************************************************)
(* Other clients of the store.  The store is shared, and nothing locks it: *)
(* between two loop turns of a running validation another client can add   *)
(* a fact, remove one, or set an attribute.                                *)
(***************************************************************************)
concurrent_write ==
    /\ pc = "validate"
    /\ writes < MaxWrites
    /\ writes' = writes + 1
    /\ \/ \E edge \in Range(hg_all(store)) : store' = hg_remove(store, edge)
       \/ \E text \in UserTexts :
             LET edge == <<"a/P", "user/C", UserConcept[text]>>
             IN  /\ ~hg_exists(store, edge) /\ Len(store) < MaxStore
                 /\ store' = set_attributes(hg_add(store, edge), edge,
                                            Attrs("user", None, None))
       \/ \E entry \in FoundationPack :
             /\ ~hg_exists(store, hedge(entry.s)) /\ Len(store) < MaxStore
             /\ store' = set_attributes(hg_add(store, hedge(entry.s)), hedge(entry.s),
                                        entry.attrs)
       \/ /\ hg_exists(store, contra_ibuprofen)
          /\ store' = hg_set_attribute(store, contra_ibuprofen, "mandatory", "False")
          /\ store' # store
    /\ UNCHANGED <<active_layers, pc, error, searches, val_vars, walk_vars, san_vars,
                   fault, cancel_requested>>

SpecConcurrent ==
    Init /\ [][\/ add_edge_from_string
               \/ add_user_fact
               \/ ValidateCall
               \/ EvaluateProposed
               \/ ValidateReturn
               \/ CallEnd
               \/ concurrent_write]_vars

(***************************************************************************)
(* A client that starts from a store loaded with rules of every family,    *)
(* mandatory or not, in any order, and validates against the foundation    *)
(* layer.                                                                  *)
(***************************************************************************)
RulePack ==
    {[edge |-> rule, attrs |-> Attrs("foundation", m, None)] :
        rule \in {contra_ibuprofen, req_ibuprofen, rec_ibuprofen, forbidden_required},
        m \in {"True", "False"}}
    \cup {[edge |-> takes_both, attrs |-> Attrs("foundation", "True", None)],
          [edge |-> <<"recommended/P", "patient/C", "ibuprofen/C">>,
           attrs |-> Attrs("foundation", "False", None)],
          [edge |-> <<"recommended/P", "ibuprofen/C", "patient/C">>,
           attrs |-> Attrs("foundation", "False", None)],
          [edge |-> <<"contraindicated/P", "a/P", "ibuprofen/C", "patient/C">>,
           attrs |-> Attrs("foundation", "True", None)],
          [edge |-> user_diabetes, attrs |-> Attrs("user", None, None)],
          [edge |-> <<"takes/P", "user/C", "ibuprofen/C", "diabetes/C">>,
           attrs |-> Attrs("user", None, None)]}

InitEvaluate ==
    /\ store \in {s \in UNION {[1..n -> RulePack] : n \in 0..MaxRules} :
                     \A i, j \in 1..Len(s) : s[i].edge = s[j].edge => i = j}
    /\ active_layers = {"foundation"}
    /\ pc = "idle"
    /\ error = None
    /\ searches = {}
    /\ ValidatorAtRest
    /\ WalkerAtRest
    /\ SanitizerAtRest
    /\ EnvironmentAtRest

SpecEvaluate ==
    InitEvaluate /\ [][ValidateCall \/ EvaluateProposed \/ ValidateReturn \/ CallEnd]_vars

(***************************************************************************)
(* sanitize_pattern called on its own, on texts built from a few parts.    *)
(***************************************************************************)
SanitizerParts ==
    { <<"(">>, <<")">>, <<"a">>, <<" ">>, <<"\n">>, <<";">>, <<"-">>,
      <<"D", "R", "O", "P">>, <<"D", "r", "o", "P">>, <<"d", "e", "l", "e", "t", "e">>,
      <<"U", "P", "D", "A", "T", "E">> }

RECURSIVE Concatenations(_)
Concatenations(n) ==
    IF n = 0 THEN {<<>>}
    ELSE LET shorter == Concatenations(n - 1)
         IN  shorter \cup {t \o part : t \in shorter, part \in SanitizerParts}

\* "(" k times, a symbol, ")" k times
RECURSIVE Nested(_)
Nested(k) == IF k = 0 THEN <<"a">> ELSE <<"(">> \o Nested(k - 1) \o <<")">>

InitSanitize ==
    /\ store = <<>>
    /\ active_layers = {}
    /\ pc = "idle"
    /\ error = None
    /\ searches = {}
    /\ ValidatorAtRest
    /\ WalkerAtRest
    /\ pattern \in Concatenations(MaxParts) \cup {Nested(k) : k \in 0..MaxNest}
    /\ max_depth \in {1, 2, DefaultMaxDepth}
    /\ sanitized = NotSanitized
    /\ EnvironmentAtRest

SanitizeCall ==
    /\ ~sanitized.called
    /\ LET outcome == sanitize_pattern(pattern, max_depth)
       IN  sanitized' = [called |-> TRUE, raised |-> outcome.raised, value |-> outcome.value]
    /\ UNCHANGED <<api_vars, pc, error, searches, val_vars, walk_vars, pattern, max_depth, env_vars>>

NextSanitize == SanitizeCall

SpecSanitize == InitSanitize /\ [][NextSanitize]_vars

(***************************************************************************)
(* Properties of validate_edges_against_rules.                             *)
(***************************************************************************)
EdgesOf(list) == {list[i].edge : i \in 1..Len(list)}

\* C1: in every report returned, each proposed edge of the normalised batch stands in
\* exactly one of kept, rejected and unknown, and the three lists together hold as
\* many items as the batch holds edges.
C1_Partition ==
    report # <<>> =>
        LET r == report[1]
        IN  /\ Len(r.kept) + Len(r.rejected) + Len(r.unknown) = Len(proposed_edges)
            /\ EdgesOf(r.kept) \cup EdgesOf(r.rejected) \cup EdgesOf(r.unknown)
                   = Range(proposed_edges)
            /\ EdgesOf(r.kept) \cap EdgesOf(r.rejected) = {}
            /\ EdgesOf(r.kept) \cap EdgesOf(r.unknown) = {}
            /\ EdgesOf(r.rejected) \cap EdgesOf(r.unknown) = {}

\* a report on two proposed edges, one kept and one rejected
C1_Witness ==
    /\ report # <<>>
    /\ Len(proposed_edges) = 2
    /\ report[1].kept # <<>>
    /\ report[1].rejected # <<>>

\* C2: the decision of a report is DENY exactly when rejected is non-empty, UNKNOWN
\* exactly when rejected is empty and unknown is not, and ALLOW exactly when both are
\* empty.
C2_DecisionAggregation ==
    report # <<>> =>
        LET r == report[1]
        IN  /\ r.decision = "DENY" <=> r.rejected # <<>>
            /\ r.decision = "UNKNOWN" <=> (r.rejected = <<>> /\ r.unknown # <<>>)
            /\ r.decision = "ALLOW" <=> (r.rejected = <<>> /\ r.unknown = <<>>)

\* a report with a rejected and an unknown proposal: DENY wins over UNKNOWN
C2_Witness ==
    /\ report # <<>>
    /\ report[1].rejected # <<>>
    /\ report[1].unknown # <<>>
    /\ report[1].decision = "DENY"

\* the concepts the facts of layer "user" add to every proposal
C3_Concepts == {"ibuprofen/C", "diabetes/C", "allergy_test/C", "new_medication/C", "patient/C"}

C3_Context ==
    {c \in C3_Concepts :
        \E i \in 1..Len(store) : store[i].attrs.layer = "user" /\ c \in Range(store[i].edge)}

C3_Overlaps(proposed, rule) ==
    Cardinality((Range(proposed) \cup C3_Context) \cap Range(rule)) >= 2

C3_Mandatory(rule) ==
    \E i \in 1..Len(store) : store[i].edge = rule /\ store[i].attrs.mandatory = "True"

C3_Contraindication(i) == rules[i][1] = "contraindicated/P"

C3_Obligation(i) == rules[i][1] = "required/P"

\* a mandatory contraindication rule of the selected list that overlaps the proposal
C3_Contraindicated(proposed) ==
    \E i \in 1..Len(rules) :
        C3_Contraindication(i) /\ C3_Mandatory(rules[i]) /\ C3_Overlaps(proposed, rules[i])

\* the same, with no mandatory obligation rule that overlaps the proposal before it
C3_ContraindicationDecides(proposed) ==
    \E i \in 1..Len(rules) :
        /\ C3_Contraindication(i) /\ C3_Mandatory(rules[i]) /\ C3_Overlaps(proposed, rules[i])
        /\ \A j \in 1..(i - 1) :
              ~(C3_Obligation(j) /\ C3_Mandatory(rules[j]) /\ C3_Overlaps(proposed, rules[j]))

\* C3 as the spec states it: a proposal that overlaps a mandatory contraindication rule
\* of the selected list in two symbols or more is never kept and never unknown.
C3_ContraindicationAlwaysDenies ==
    /\ \A p \in EdgesOf(kept) : ~C3_Contraindicated(p)
    /\ \A p \in EdgesOf(unknown) : ~C3_Contraindicated(p)

\* C3, amended: a proposal is rejected exactly when the selected list holds a mandatory
\* contraindication rule that overlaps it (its own symbols and the user context) in
\* two symbols or more and no mandatory obligation rule with such an overlap stands
\* before that rule; recommendation rules change nothing, wherever they stand.
C3_FirstMandatoryRuleDecides ==
    /\ \A p \in EdgesOf(rejected) : C3_ContraindicationDecides(p)
    /\ \A p \in EdgesOf(kept) : ~C3_ContraindicationDecides(p)
    /\ \A p \in EdgesOf(unknown) : ~C3_ContraindicationDecides(p)

\* a proposal rejected after a recommendation rule that matched it earlier in the list
C3_Witness ==
    /\ pc = "validated"
    /\ \E i \in 1..Len(rejected) :
          /\ Len(rejected[i].why_trace) >= 2
          /\ rejected[i].why_trace[1].connector = "recommended/P"

\* C4 as the spec states it: with the mandatory rule (required/P allergy_test/C
\* new_medication/C) among the selected rules, the report on the proposal
\* (takes/P patient/C new_medication/C) has decision UNKNOWN and lists the proposal
\* under unknown.
C4_ObligationGivesUnknown ==
    (/\ report # <<>>
     /\ proposed_edges = <<takes_new_medication>>
     /\ \E i \in 1..Len(rules) : rules[i] = req_allergy_test /\ C3_Mandatory(rules[i]))
    => /\ report[1].decision = "UNKNOWN"
       /\ EdgesOf(report[1].unknown) = {takes_new_medication}

C6_ReadOnly ==
    [][(pc # "idle" \/ pc' # "idle") => UNCHANGED <<store, active_layers>>]_vars

\* a call that failed on a malformed confidence, over a store of two facts or more
C6_Witness ==
    /\ pc = "raised"
    /\ error = ValueError
    /\ Len(store) >= 2
    /\ active_layers # {}

(***************************************************************************)
(* Properties of sanitize_pattern.                                         *)
(***************************************************************************)
\* the running depth never falls below zero and ends at zero
RECURSIVE C7_BalancedFrom(_, _)
C7_BalancedFrom(text, depth) ==
    IF text = <<>> THEN depth = 0
    ELSE IF Head(text) = "(" THEN C7_BalancedFrom(Tail(text), depth + 1)
    ELSE IF Head(text) = ")" THEN depth > 0 /\ C7_BalancedFrom(Tail(text), depth - 1)
    ELSE C7_BalancedFrom(Tail(text), depth)

C7_Balanced(text) == C7_BalancedFrom(text, 0)

\* C7 as the spec states it: a pattern with balanced parentheses, a nesting depth of
\* max_depth at most and no denylisted token is returned unchanged; an unbalanced
\* pattern, a deeper one and one with a denylisted token raise GraphPatternError.
C7_AcceptsExactlyTheWellFormed ==
    sanitized.called =>
        LET well_formed == /\ C7_Balanced(pattern)
                           /\ max_observed_depth_of(pattern) <= max_depth
                           /\ ~suspicious_patterns(pattern)
        IN  /\ well_formed => ~sanitized.raised /\ sanitized.value = pattern
            /\ ~well_formed => sanitized.raised

(***************************************************************************)
(* Properties of the walks.                                                *)
(***************************************************************************)
\* C8: search_with_reasoning with hops = 0 and a limit of one or more returns one
\* result, the seed at distance 0, and sends no search to the store.
C8_ZeroHops ==
    (pc = "searched" /\ hops = 0 /\ limit >= 1) =>
        /\ Len(results) = 1
        /\ results[1].distance = 0
        /\ query.kind = "str" => results[1].edge_str = query.value
        /\ query.kind = "Hyperedge" => results[1].edge = query.value
        /\ searches = {}

\* a zero-hop search returned while the store holds a fact with a symbol of the seed
\* in its second place, which one hop would have reached
C8_Witness ==
    /\ pc = "searched"
    /\ hops = 0
    /\ limit = MaxLimit
    /\ results # <<>>
    /\ \E i \in 1..Len(store) :
          store[i].edge[2] \in Range(results[1].edge) /\ store[i].edge # results[1].edge

\* C9: the results of search_with_reasoning and of find_neighbors hold no two entries
\* with the same edge_str.
C9_DistinctResults ==
    \A i, j \in 1..Len(results) : i # j => results[i].edge_str # results[j].edge_str

\* a fact stands at the head of the queue a second time, with room left in results
C9_Witness ==
    /\ pc \in {"search_with_reasoning", "find_neighbors"}
    /\ queue # <<>>
    /\ Len(results) < limit
    /\ \E i \in 1..Len(results) : results[i].edge = Head(queue).edge

\* whether sanitize_pattern, with its default depth, accepts a pattern
C10_Accepted(pattern_text) == ~sanitize_raises(Spell(pattern_text), DefaultMaxDepth)

C11_TerminatesWithinLimit ==
    /\ [](pc \in {"search_with_reasoning", "searched"} => Len(results) <= limit)
    /\ [][pc = "search_with_reasoning" /\ pc' = "search_with_reasoning"
            => queue # <<>> /\ Len(results) < limit]_vars
    /\ [][pc = "search_with_reasoning" /\ pc' = "searched"
            => queue = <<>> \/ Len(results) >= limit]_vars
    /\ (pc = "search_with_reasoning") ~> (pc = "searched")

\* a walk that was cut at the limit with facts left in its queue
C11_Witness ==
    /\ pc = "searched"
    /\ limit = MaxLimit
    /\ Len(results) = limit
    /\ queue # <<>>

(***************************************************************************)
(* Failures of the store under the walk.                                   *)
(***************************************************************************)
\* the stored facts a search for one of the symbols finds, for the symbols whose
\* search works, without the facts already visited
C12_Reached(symbols, seen) ==
    {edge \in Range(hg_all(store)) :
        /\ to_str(edge) \notin seen
        /\ \E a \in symbols : /\ ~hg_search_raises(<<"*", a, "*">>)
                              /\ Matches(<<"*", a, "*">>, edge)}

\* C12: while the search for one symbol fails, search_with_reasoning does not raise:
\* a loop turn keeps the records emitted so far, and the turn that expands a fact
\* enqueues exactly the unvisited facts that the searches for its other symbols find.
C12_FailedSymbolSkipped ==
    [][pc = "search_with_reasoning" /\ fault.op = "search"
       => /\ pc' \in {"search_with_reasoning", "searched"}
          /\ error' = None
          /\ Len(results') >= Len(results)
          /\ SubSeq(results', 1, Len(results)) = results
          /\ (pc' = pc /\ Len(results') > Len(results) /\ Head(queue).dist < hops)
             => LET added == SubSeq(queue', Len(queue), Len(queue'))
                IN  EdgesOf(added) = C12_Reached(atoms(Head(queue).edge), visited')]_vars

\* a walk from (takes/P ibuprofen/C new_medication/C) that returned while the search
\* for ibuprofen/C failed: it reached a fact through new_medication/C and missed a
\* stored fact that only ibuprofen/C leads to
C12_Witness ==
    /\ pc = "searched"
    /\ fault = [op |-> "search", arg |-> <<"*", "ibuprofen/C", "*">>]
    /\ query = [kind |-> "Hyperedge", value |-> takes_both]
    /\ Len(results) < limit
    /\ \E i \in 1..Len(results) : results[i].distance = 1
    /\ hg_exists(store, rec_ibuprofen)
    /\ rec_ibuprofen \notin EdgesOf(results)

(***************************************************************************)
(* Failures of the store under the validator.                              *)
(***************************************************************************)
\* a store call of the context collection fails: the enumeration, or the read of
\* the attributes of one of the enumerated facts
C13_CollectionFails ==
    \/ hg_all_raises
    \/ \E edge \in Range(hg_all(store)) : hg_get_attributes_raises(edge)

\* the edge decision and trace of a proposed edge when the context is empty
C13_WithoutContext(proposed) == rule_loop(store, atoms(proposed), {}, rules, 1, <<>>, strategy)

\* C13: when a store call of the user-context collection fails, the call still returns
\* a report, and the report is the one computed with the empty context: every proposed
\* edge stands in the list, and with the trace, that the empty context gives it.
C13_FailedCollectionGivesEmptyContext ==
    (pc = "validated" /\ C13_CollectionFails)
    => /\ \A i \in 1..Len(kept) :
              C13_WithoutContext(kept[i].edge) = Evaluated("ALLOW", kept[i].why_trace)
       /\ \A i \in 1..Len(rejected) :
              C13_WithoutContext(rejected[i].edge) = Evaluated("DENY", rejected[i].why_trace)
       /\ \A i \in 1..Len(unknown) :
              C13_WithoutContext(unknown[i].edge) = Evaluated("UNKNOWN", unknown[i].why_trace)

\* the failures of the rule selection of the running call, by error kind
C14_PatternRejected ==
    rule_pattern # <<>> /\ sanitize_raises(rule_pattern, DefaultMaxDepth)

C14_SearchFails ==
    /\ rule_pattern # <<>>
    /\ ~C14_PatternRejected
    /\ hg_search_raises(hedge(rule_pattern))

C14_ScanFails ==
    /\ rule_pattern = <<>>
    /\ \/ hg_all_raises
       \/ \E edge \in Range(hg_all(store)) : hg_get_attributes_raises(edge)

\* the call ended with the error, before the first proposed edge was evaluated
C14_FailedWith(kind) ==
    /\ pc = "raised"
    /\ error = kind
    /\ report = <<>>
    /\ next_edge = 1
    /\ kept = <<>> /\ rejected = <<>> /\ unknown = <<>>
    /\ Cardinality(searches) <= 1

\* C14: a call whose rule selection fails (the sanitizer rejects the rule pattern, the
\* pattern search fails, or the enumeration or an attribute read of the scan fails)
\* ends with that error and without a report, and is not retried; a failing
\* enumeration or attribute read of the context collection never ends a call: a call
\* whose selection worked ends with an error only from the confidence parse or from the
\* attribute read of a selected rule in the rule loop.
C14_SelectionFailureIsFatal ==
    /\ [](pc # "idle" /\ C14_PatternRejected => C14_FailedWith(GraphPatternError))
    /\ [](pc # "idle" /\ C14_SearchFails => C14_FailedWith(StoreError))
    /\ [](pc # "idle" /\ C14_ScanFails => C14_FailedWith(AdapterError))
    /\ [](pc = "raised" /\ ~C14_PatternRejected /\ ~C14_SearchFails /\ ~C14_ScanFails
             => \/ error = ValueError
                \/ /\ error = AdapterError
                   /\ fault.op = "get_attributes"
                   /\ fault.arg \in Range(rules))
    /\ [][pc = "raised" => pc' = "idle"]_vars

\* a call whose pattern search failed
C14_Witness ==
    /\ pc = "raised"
    /\ error = StoreError
    /\ proposed_edges # <<>>
    /\ store # <<>>
    /\ searches # {}

(***************************************************************************)
(* Malformed confidence values.                                            *)
(***************************************************************************)
\* the stored confidence of the rule is a text that is not a number
C15_Malformed(rule) ==
    \E i \in 1..Len(store) :
        /\ store[i].edge = rule
        /\ store[i].attrs.confidence # None
        /\ store[i].attrs.confidence \notin DOMAIN ParseFloat

\* rule j of the selected list ends the evaluation of the proposed edge
C15_Decides(proposed, j) ==
    /\ C3_Contraindication(j) \/ C3_Obligation(j)
    /\ C3_Mandatory(rules[j])
    /\ C3_Overlaps(proposed, rules[j])

\* the evaluation of the proposed edge comes to a malformed rule that overlaps it
C15_Parsed(proposed) ==
    \E i \in 1..Len(rules) :
        /\ C15_Malformed(rules[i])
        /\ C3_Overlaps(proposed, rules[i])
        /\ \A j \in 1..(i - 1) : ~C15_Decides(proposed, j)

\* the facts of the toggled layers: the selection of a call without pattern and layers
C15_OfToggledLayers ==
    {store[i].edge : i \in {k \in 1..Len(store) : store[k].attrs.layer \in active_layers}}

\* C15 as the spec states it: no report is returned by a call that selected a rule
\* with a malformed confidence, whatever confidence_min is and whether or not the
\* rule overlaps a proposed edge.
C15_MalformedRuleAlwaysFails ==
    pc = "validated" => \A i \in 1..Len(rules) : ~C15_Malformed(rules[i])

\* C15, amended: with confidence_min > 0 a malformed confidence among the selected rules
\* ends the call with ValueError and no report; with confidence_min = 0 the call ends
\* with ValueError exactly when the evaluation of a proposed edge comes to a malformed
\* rule that overlaps it in two symbols or more, and returns a report otherwise.
C15_MalformedRuleFailsWhenParsed ==
    /\ (/\ pc # "idle" /\ confidence_min > 0 /\ rule_pattern = <<>> /\ layers = <<>>
        /\ \E rule \in C15_OfToggledLayers : C15_Malformed(rule))
       => pc = "raised" /\ error = ValueError /\ next_edge = 1
    /\ (pc = "validated" /\ confidence_min = 0)
       => \A i \in 1..Len(proposed_edges) : ~C15_Parsed(proposed_edges[i])
    /\ (pc = "raised" /\ error = ValueError /\ confidence_min = 0)
       => next_edge > 1 /\ C15_Parsed(proposed_edges[next_edge - 1])
    /\ (pc = "raised" /\ error = ValueError) => report = <<>>

\* a call with confidence_min = 0 that failed on its second proposed edge
C15_Witness ==
    /\ pc = "raised"
    /\ error = ValueError
    /\ confidence_min = 0
    /\ next_edge = 3
    /\ kept # <<>>

(***************************************************************************)
(* Cancellation.                                                           *)
(***************************************************************************)
\* C16: once the caller's cancellation or deadline signal is raised, a running
\* validation evaluates no further proposed edge against the rules and a running walk
\* takes no further item from its queue and emits no further record.
C16_AbortedBetweenSteps ==
    [][cancel_requested /\ pc \in {"validate", "search_with_reasoning"}
       => /\ next_edge' = next_edge
          /\ queue' = queue
          /\ results' = results]_vars

(***************************************************************************)
(* Validation while other clients write to the store.                      *)
(***************************************************************************)
\* how many items of the list hold the edge
C17_Count(list, edge) == Cardinality({i \in 1..Len(list) : list[i].edge = edge})

C18_SameProposalSameOutcome ==
    pc = "validated"
    => /\ EdgesOf(kept) \cap EdgesOf(rejected) = {}
       /\ EdgesOf(kept) \cap EdgesOf(unknown) = {}
       /\ EdgesOf(rejected) \cap EdgesOf(unknown) = {}
       /\ \A i, j \in 1..Len(kept) :
              kept[i].edge = kept[j].edge => kept[i].why_trace = kept[j].why_trace
       /\ \A i, j \in 1..Len(rejected) :
              rejected[i].edge = rejected[j].edge
              => rejected[i].why_trace = rejected[j].why_trace
       /\ \A i, j \in 1..Len(unknown) :
              unknown[i].edge = unknown[j].edge
              => unknown[i].why_trace = unknown[j].why_trace

(***************************************************************************)
(* The rule that decides, and the rules that do not match.                 *)
(***************************************************************************)
C19_Contraindication(rule) == rule[1] \in {"contraindicated/P", "forbidden_required/P"}

C19_Obligation(rule) == rule[1] \in {"required/P", "forbidden_required/P"}

\* rule i of the selected list overlaps the proposed edge, is mandatory and is of the
\* contraindication or the obligation family
C19_Ends(proposed, i) ==
    /\ C3_Overlaps(proposed, rules[i])
    /\ C3_Mandatory(rules[i])
    /\ C19_Contraindication(rules[i]) \/ C19_Obligation(rules[i])

C19_First(proposed, i) ==
    C19_Ends(proposed, i) /\ \A j \in 1..(i - 1) : ~C19_Ends(proposed, j)

\* the recommendation rules among the first n selected rules that overlap the proposed edge
C19_Recommendations(proposed, n) ==
    {to_str(rules[j]) : j \in {k \in 1..n : /\ rules[k][1] = "recommended/P"
                                            /\ C3_Overlaps(proposed, rules[k])}}

\* the trace holds the recommendation rules before rule i, then rule i
C19_TraceEndsAt(trace, proposed, i) ==
    /\ trace # <<>>
    /\ trace[Len(trace)].rule = to_str(rules[i])
    /\ {trace[k].rule : k \in 1..(Len(trace) - 1)} = C19_Recommendations(proposed, i - 1)
    /\ Len(trace) - 1 = Cardinality(C19_Recommendations(proposed, i - 1))

C20_AgainstMatches(proposed) ==
    rule_loop(store, atoms(proposed), user_conditions(store),
              SelectSeq(rules, LAMBDA rule : C3_Overlaps(proposed, rule)), 1, <<>>, strategy)

\* C20: a selected rule that shares fewer than two symbols with the proposed edge and
\* the user context changes nothing: the proposed edge stands in the list, with the
\* trace, that the other selected rules alone give it, every rule in a trace overlaps
\* in two symbols or more, and a proposed edge that no selected rule overlaps in two
\* symbols is kept with an empty trace.
C20_WeakOverlapIsNoMatch ==
    /\ \A k \in 1..Len(kept) :
          /\ C20_AgainstMatches(kept[k].edge) = Evaluated("ALLOW", kept[k].why_trace)
          /\ (\A i \in 1..Len(rules) : ~C3_Overlaps(kept[k].edge, rules[i]))
             => kept[k].why_trace = <<>>
          /\ \A n \in 1..Len(kept[k].why_trace) :
                Cardinality(kept[k].why_trace[n].matched_concepts) >= 2
    /\ \A k \in 1..Len(rejected) :
          /\ C20_AgainstMatches(rejected[k].edge) = Evaluated("DENY", rejected[k].why_trace)
          /\ \E i \in 1..Len(rules) : C3_Overlaps(rejected[k].edge, rules[i])
          /\ \A n \in 1..Len(rejected[k].why_trace) :
                Cardinality(rejected[k].why_trace[n].matched_concepts) >= 2
    /\ \A k \in 1..Len(unknown) :
          /\ C20_AgainstMatches(unknown[k].edge) = Evaluated("UNKNOWN", unknown[k].why_trace)
          /\ \E i \in 1..Len(rules) : C3_Overlaps(unknown[k].edge, rules[i])
          /\ \A n \in 1..Len(unknown[k].why_trace) :
                Cardinality(unknown[k].why_trace[n].matched_concepts) >= 2

\* a proposed edge kept with an empty trace although a mandatory contraindication rule
\* that shares one symbol with it was selected
C20_Witness ==
    /\ pc = "validated"
    /\ contra_ibuprofen \in Range(rules)
    /\ C3_Mandatory(contra_ibuprofen)
    /\ ~C3_Overlaps(takes_ibuprofen, contra_ibuprofen)
    /\ \E k \in 1..Len(kept) :
          kept[k].edge = takes_ibuprofen /\ kept[k].why_trace = <<>>

(***************************************************************************)
(* The why-trace.                                                          *)
(***************************************************************************)
\* the place of the rule of a trace entry in the selected list
C21_Place(entry) == CHOOSE i \in 1..Len(rules) : to_str(rules[i]) = entry.rule

\* every entry but the last n is the entry of a recommendation rule, and the entries
\* stand in the order of the selected list
C21_Recommendations(trace, n) ==
    /\ \A k \in 1..Len(trace) : \E i \in 1..Len(rules) : to_str(rules[i]) = trace[k].rule
    /\ \A k \in 1..(Len(trace) - n) : trace[k].connector = "recommended/P"
    /\ \A k \in 1..(Len(trace) - 1) : C21_Place(trace[k]) < C21_Place(trace[k + 1])

\* the last entry is the entry of a mandatory rule of the given family
C21_EndsWith(trace, connectors) ==
    /\ trace # <<>>
    /\ trace[Len(trace)].mandatory
    /\ trace[Len(trace)].connector \in connectors

\* C21: the trace of a kept fact holds only entries of recommendation rules, in the
\* order of the selected list; the trace of a rejected or unknown fact ends with the
\* entry of a mandatory contraindication (rejected) or obligation (unknown) rule, with
\* only entries of recommendation rules before it, in the order of the selected list;
\* and when the only selected rule is the mandatory (contraindicated/P ibuprofen/C
\* diabetes/C) and the user context holds diabetes/C, the trace of the rejected
\* (takes/P patient/C ibuprofen/C) is one entry with ibuprofen/C and diabetes/C matched.
C21_TraceComposition ==
    /\ \A k \in 1..Len(kept) : C21_Recommendations(kept[k].why_trace, 0)
    /\ \A k \in 1..Len(rejected) :
          /\ C21_Recommendations(rejected[k].why_trace, 1)
          /\ C21_EndsWith(rejected[k].why_trace,
                          {"contraindicated/P", "forbidden_required/P"})
    /\ \A k \in 1..Len(unknown) :
          /\ C21_Recommendations(unknown[k].why_trace, 1)
          /\ C21_EndsWith(unknown[k].why_trace, {"required/P", "forbidden_required/P"})
    /\ (rules = <<contra_ibuprofen>> /\ C3_Mandatory(contra_ibuprofen))
       => \A k \in 1..Len(rejected) :
             /\ Len(rejected[k].why_trace) = 1
             /\ rejected[k].edge = takes_ibuprofen
                => {"ibuprofen/C", "diabetes/C"}
                      \subseteq rejected[k].why_trace[1].matched_concepts

\* a fact rejected after two recommendation rules that matched it before the deciding rule
C21_Witness ==
    /\ pc = "validated"
    /\ \E k \in 1..Len(rejected) :
          /\ Len(rejected[k].why_trace) = 3
          /\ rejected[k].why_trace[1].connector = "recommended/P"
          /\ rejected[k].why_trace[2].connector = "recommended/P"

\* the selected rule a trace entry was made for
C22_Rule(entry) == rules[CHOOSE i \in 1..Len(rules) : to_str(rules[i]) = entry.rule]

C22_EntryOf(proposed, entry) ==
    /\ \E i \in 1..Len(rules) : to_str(rules[i]) = entry.rule
    /\ entry.direct_match = Range(proposed) \cap Range(C22_Rule(entry))
    /\ entry.user_context = C3_Context \cap Range(C22_Rule(entry))
    /\ entry.matched_concepts = entry.direct_match \cup entry.user_context
    /\ Cardinality(entry.matched_concepts) >= 2

\* C22: in every entry of every why-trace, direct_match is the symbols the proposed fact
\* shares with the rule, user_context is the symbols the user context shares with the
\* rule, matched_concepts is the union of the two, and it holds at least 2 symbols.
C22_MatchedConcepts ==
    /\ \A k \in 1..Len(kept) : \A n \in 1..Len(kept[k].why_trace) :
          C22_EntryOf(kept[k].edge, kept[k].why_trace[n])
    /\ \A k \in 1..Len(rejected) : \A n \in 1..Len(rejected[k].why_trace) :
          C22_EntryOf(rejected[k].edge, rejected[k].why_trace[n])
    /\ \A k \in 1..Len(unknown) : \A n \in 1..Len(unknown[k].why_trace) :
          C22_EntryOf(unknown[k].edge, unknown[k].why_trace[n])

\* an entry matched through the user context only, and one matched through the
\* proposal and the user context together
C22_Witness ==
    /\ pc = "validated"
    /\ \E k \in 1..Len(rejected) : \E n \in 1..Len(rejected[k].why_trace) :
          /\ rejected[k].why_trace[n].direct_match = {"ibuprofen/C"}
          /\ rejected[k].why_trace[n].user_context = {"ibuprofen/C", "diabetes/C"}
    /\ \E k \in 1..Len(rejected) : \E n \in 1..Len(rejected[k].why_trace) :
          /\ rejected[k].why_trace[n].direct_match = {}
          /\ Cardinality(rejected[k].why_trace[n].user_context) = 2

(***************************************************************************)
(* The user context.                                                       *)
(***************************************************************************)
\* the symbols of the facts of layer "user", without those that hold "user"
C23_SymbolsOfUserFacts ==
    {a \in Atoms :
        /\ \E i \in 1..Len(store) : store[i].attrs.layer = "user" /\ a \in Range(store[i].edge)
        /\ a \notin {"user/C"}}

\* those of them that carry the concept tag
C23_ConceptsOfUserFacts ==
    C23_SymbolsOfUserFacts \cap C3_Concepts

\* every item of the three lists is what the rule loop gives with this context
C23_ValidatedWith(context) ==
    /\ \A k \in 1..Len(kept) :
          rule_loop(store, Range(kept[k].edge), context, rules, 1, <<>>, strategy)
             = Evaluated("ALLOW", kept[k].why_trace)
    /\ \A k \in 1..Len(rejected) :
          rule_loop(store, Range(rejected[k].edge), context, rules, 1, <<>>, strategy)
             = Evaluated("DENY", rejected[k].why_trace)
    /\ \A k \in 1..Len(unknown) :
          rule_loop(store, Range(unknown[k].edge), context, rules, 1, <<>>, strategy)
             = Evaluated("UNKNOWN", unknown[k].why_trace)

\* C23 (as stated): the user context the validator uses is the symbols, of every type
\* tag, of the facts of layer "user", without the symbols that reference "user".
C23_ContextOfEveryTag == C23_ValidatedWith(C23_SymbolsOfUserFacts)

\* C23 (amended): the user context the validator uses is the symbols with the concept
\* tag "/C" of the facts of layer "user", without the symbols that reference "user";
\* symbols of another tag and facts of another layer contribute nothing.
C23_ContextOfConcepts == C23_ValidatedWith(C23_ConceptsOfUserFacts)

\* a proposal kept although a mandatory contraindication rule shares a/P with a user fact
\* and patient/C with the proposal
C23_Witness ==
    /\ pc = "validated"
    /\ rules = <<<<"contraindicated/P", "a/P", "ibuprofen/C", "patient/C">>>>
    /\ C23_SymbolsOfUserFacts = {"a/P", "diabetes/C"}
    /\ \E k \in 1..Len(kept) : kept[k].edge = takes_new_medication

(***************************************************************************)
(* The candidate rules.                                                    *)
(***************************************************************************)
\* the layer set of the call: the layers argument, or the toggled layers without one
C24_LayerSet == IF layers # <<>> THEN Range(layers) ELSE active_layers

\* the confidence of a stored fact in hundredths, 1.0 when absent
C24_Confidence(attrs) ==
    CASE attrs.confidence = None -> 100
      [] attrs.confidence = "1.0" -> 100
      [] attrs.confidence = "0.98" -> 98
      [] attrs.confidence = "0.5" -> 50

C24_Candidate(i) ==
    /\ store[i].attrs.layer \in C24_LayerSet
    /\ confidence_min > 0 => C24_Confidence(store[i].attrs) >= confidence_min

\* the stored facts that pass, in store order
RECURSIVE C24_Candidates(_)
C24_Candidates(i) ==
    IF i > Len(store) THEN <<>>
    ELSE IF C24_Candidate(i) THEN <<store[i].edge>> \o C24_Candidates(i + 1)
    ELSE C24_Candidates(i + 1)

\* C24: without a rule pattern the candidate rules of a call are the enumerated facts
\* whose layer is in the layers argument (in the toggled layers when there is none),
\* restricted when confidence_min > 0 to those with confidence (1.0 when absent) of at
\* least confidence_min, in store enumeration order, and rules_checked is their number.
C24_CandidateRules ==
    (pc \in {"validate", "validated"} /\ rule_pattern = <<>>)
    => /\ rules = C24_Candidates(1)
       /\ report # <<>> => report[1].rules_checked = Len(C24_Candidates(1))

\* a call with confidence_min 0.9 that keeps a rule of confidence 0.98 and a rule
\* without a confidence and drops a rule of confidence 0.5 between them
C24_Witness ==
    /\ pc = "validated"
    /\ rule_pattern = <<>>
    /\ confidence_min = 90
    /\ Len(store) = 3
    /\ store[1].edge = contra_ibuprofen
    /\ store[2].edge = req_ibuprofen
    /\ store[3].edge = rec_ibuprofen
    /\ rules = <<contra_ibuprofen, rec_ibuprofen>>
    /\ report # <<>>
    /\ report[1].rules_checked = 2

(***************************************************************************)
(* The records of search_with_reasoning.                                   *)
(***************************************************************************)
\* the fact the walk starts from
C25_Seed ==
    IF query.kind = "str" THEN hedge(sanitize_pattern(query.value, DefaultMaxDepth).value)
    ELSE query.value

\* the facts a path can hold: the seed and the stored facts
C25_Facts == {C25_Seed} \cup EdgesOf(store)

\* a neighbor search on a symbol of the fact with the first text returns the fact
\* with the second text
C25_Returned(text, next_text) ==
    \E from \in C25_Facts, to \in EdgesOf(store) :
        /\ to_str(from) = text
        /\ to_str(to) = next_text
        /\ \E atom \in Range(from) : to \in Range(related(store, atom).edges)

C25_Record(r) ==
    /\ 0 <= r.distance /\ r.distance <= hops
    /\ Len(r.path) = r.distance + 1
    /\ r.path[1] = to_str(C25_Seed)
    /\ r.path[Len(r.path)] = r.edge_str
    /\ r.edge_str = to_str(r.edge)
    /\ \A j \in 1..(Len(r.path) - 1) : C25_Returned(r.path[j], r.path[j + 1])

\* C25: every record of search_with_reasoning has a distance from 0 to the hop limit;
\* the first record is the seed with distance 0 and the path [seed]; a record at
\* distance d has a path of d + 1 facts from the seed to its own fact, each of them
\* returned by a neighbor search on a symbol of the fact before it.
C25_RecordsAndPaths ==
    pc \in {"search_with_reasoning", "searched"}
    => /\ \A i \in 1..Len(results) : C25_Record(results[i])
       /\ results # <<>>
          => /\ results[1].edge = C25_Seed
             /\ results[1].distance = 0
             /\ results[1].path = <<to_str(C25_Seed)>>

\* a walk of 2 hops that returned a record at distance 2 with a path of 3 facts
C25_Witness ==
    /\ pc = "searched"
    /\ hops = 2
    /\ \E i \in 1..Len(results) :
          /\ results[i].distance = 2
          /\ Len(results[i].path) = 3
          /\ results[i].edge = req_new_medication

\* C26: a fact expanded below the hop limit enqueues, for each of its symbols, the
\* stored facts that hold the symbol in any position, so when a walk has returned
\* with room left under its result limit, every stored fact that shares a symbol with
\* a record at a distance below the hop limit is among the records.
C26_SharedSymbolReached ==
    (pc = "searched" /\ Len(results) < limit)
    => \A i \in 1..Len(results) :
          results[i].distance < hops
          => \A fact \in EdgesOf(store) :
                Range(fact) \cap Range(results[i].edge) # {}
                => \E j \in 1..Len(results) : results[j].edge = fact

(***************************************************************************)
(* The strategy argument.                                                  *)
(***************************************************************************)
\* C27: the strategy does not influence the outcome: the call with strategy "simple"
\* returns the report that the call with strategy "tri_state" returned for the same
\* store, toggled layers, batch, rule pattern, layers and confidence_min.
C27_StrategyIgnored ==
    (pc = "validated" /\ strategy = "simple" /\ previous_report # <<>>)
    => /\ report = previous_report
       /\ report[1].kept = kept
       /\ report[1].rejected = rejected
       /\ report[1].unknown = unknown

\* a call with strategy "simple" after the tri_state call, with a proposal no rule
\* matched, a rejected one, and rules checked
C27_Witness ==
    /\ pc = "validated"
    /\ strategy = "simple"
    /\ previous_report # <<>>
    /\ \E k \in 1..Len(kept) : kept[k].why_trace = <<>>
    /\ rejected # <<>>
    /\ report[1].rules_checked >= 1

(***************************************************************************)
(* A rule matched through the user context alone.                          *)
(***************************************************************************)
C28_ContraindicationFamily(j) ==
    rules[j][1] \in {"contraindicated/P", "forbidden_required/P"}

C28_ObligationFamily(j) ==
    rules[j][1] \in {"required/P", "forbidden_required/P"}

\* a selected mandatory contraindication rule with 2 symbols or more in the user context
C28_MatchedByContext(i) ==
    /\ C28_ContraindicationFamily(i)
    /\ C3_Mandatory(rules[i])
    /\ Cardinality(C3_Context \cap Range(rules[i])) >= 2

\* the first mandatory contraindication rule that matches the proposal
C28_FirstContraindication(proposed) ==
    CHOOSE j \in 1..Len(rules) :
        /\ C28_ContraindicationFamily(j) /\ C3_Mandatory(rules[j])
        /\ C3_Overlaps(proposed, rules[j])
        /\ \A n \in 1..(j - 1) :
              ~(/\ C28_ContraindicationFamily(n) /\ C3_Mandatory(rules[n])
                /\ C3_Overlaps(proposed, rules[n]))

\* C28 (as stated): when a selected mandatory contraindication rule shares 2 symbols or
\* more with the user context alone, every proposed fact of the batch is rejected with
\* that rule in its trace, unless a matching mandatory obligation rule stands earlier.
C28_RejectedByThatRule ==
    pc = "validated"
    => \A i \in 1..Len(rules) : \A b \in 1..Len(proposed_edges) :
          (/\ C28_MatchedByContext(i)
           /\ \A j \in 1..(i - 1) :
                 ~(/\ C28_ObligationFamily(j) /\ C3_Mandatory(rules[j])
                   /\ C3_Overlaps(proposed_edges[b], rules[j])))
          => \E k \in 1..Len(rejected) :
                /\ rejected[k].edge = proposed_edges[b]
                /\ \E n \in 1..Len(rejected[k].why_trace) :
                      rejected[k].why_trace[n].rule = to_str(rules[i])

\* C28 (amended): when a selected mandatory contraindication rule shares 2 symbols or
\* more with the user context alone, every proposed fact of the batch is rejected,
\* unless a matching mandatory rule of the obligation family and not of the
\* contraindication family stands earlier; the trace of the rejected fact ends with the
\* first mandatory contraindication rule, in selector order, that matches the fact.
C28_RejectedByFirstRule ==
    pc = "validated"
    => \A i \in 1..Len(rules) : \A b \in 1..Len(proposed_edges) :
          (/\ C28_MatchedByContext(i)
           /\ \A j \in 1..(i - 1) :
                 ~(/\ C28_ObligationFamily(j) /\ ~C28_ContraindicationFamily(j)
                   /\ C3_Mandatory(rules[j])
                   /\ C3_Overlaps(proposed_edges[b], rules[j])))
          => \E k \in 1..Len(rejected) :
                /\ rejected[k].edge = proposed_edges[b]
                /\ rejected[k].why_trace # <<>>
                /\ rejected[k].why_trace[Len(rejected[k].why_trace)].rule
                      = to_str(rules[C28_FirstContraindication(proposed_edges[b])])

\* a proposal that shares no symbol with the rule, rejected by it through the context
C28_Witness ==
    /\ pc = "validated"
    /\ \E i \in 1..Len(rules) : C28_MatchedByContext(i) /\ rules[i] = contra_ibuprofen
    /\ \E k \in 1..Len(rejected) :
          /\ rejected[k].edge = takes_new_medication
          /\ rejected[k].why_trace[Len(rejected[k].why_trace)].rule = to_str(contra_ibuprofen)
          /\ rejected[k].why_trace[Len(rejected[k].why_trace)].direct_match = {}

(***************************************************************************)
(* A call without rules.                                                   *)
(***************************************************************************)
\* no rule pattern, no layers argument (absent or empty) and no layer toggled on
C29_NoLayer == rule_pattern = <<>> /\ layers = <<>> /\ active_layers = {}

\* C29: a call with no rule pattern and an empty effective layer set selects no rule,
\* whatever the store holds: rules_checked is 0, every proposed fact is kept with an
\* empty trace and the decision is ALLOW; and with a layers argument that is not empty
\* the selected rules are those of any other set of toggled layers.
C29_FailOpenWithoutRules ==
    pc \in {"validate", "validated"}
    => /\ C29_NoLayer
          => /\ rules = <<>>
             /\ rejected = <<>> /\ unknown = <<>>
             /\ \A k \in 1..Len(kept) : kept[k].why_trace = <<>>
             /\ report # <<>>
                => /\ report[1].rules_checked = 0
                   /\ report[1].decision = "ALLOW"
                   /\ [k \in 1..Len(report[1].kept) |-> report[1].kept[k].edge]
                         = proposed_edges
                   /\ report[1].rejected = <<>> /\ report[1].unknown = <<>>
       /\ layers # <<>>
          => \A toggled \in SUBSET {"foundation", "user"} :
                rules_to_check(store, toggled, rule_pattern, layers, confidence_min).edges
                   = rules

\* a returned call without layers on a store that holds a mandatory contraindication
\* rule for the proposal and the user fact that completes the overlap
C29_Witness ==
    /\ pc = "validated"
    /\ C29_NoLayer
    /\ {contra_ibuprofen, user_diabetes} \subseteq EdgesOf(store)
    /\ \E b \in 1..Len(proposed_edges) : proposed_edges[b] = takes_ibuprofen
    /\ report # <<>>
    /\ report[1].decision = "ALLOW"

(***************************************************************************)
(* The order and the distances of the records.                             *)
(***************************************************************************)
\* the facts the neighbor searches on the symbols of a fact return, each search cut
\* to its first 20 results
C30_Neighbors(fact) ==
    UNION {Range(related(store, atom).edges) : atom \in Range(fact)}

\* the facts within k neighbor searches of the seed
RECURSIVE C30_Within(_)
C30_Within(k) ==
    IF k = 0 THEN {C25_Seed}
    ELSE C30_Within(k - 1) \cup UNION {C30_Neighbors(fact) : fact \in C30_Within(k - 1)}

\* C30: the records of search_with_reasoning stand in non-decreasing order of distance,
\* and the distance of a record is the least number of neighbor searches that lead
\* from the seed to its fact: the fact is within that many searches and not within
\* one less.
C30_BreadthFirstDistances ==
    pc \in {"search_with_reasoning", "searched"}
    => /\ \A i \in 1..Len(results) : \A j \in i..Len(results) :
             results[i].distance <= results[j].distance
       /\ \A i \in 1..Len(results) :
             /\ results[i].edge \in C30_Within(results[i].distance)
             /\ results[i].distance > 0
                => results[i].edge \notin C30_Within(results[i].distance - 1)

\* a returned walk of 2 hops in which a fact at distance 1 was also returned by the
\* searches of another fact at distance 1, recorded before it
C30_Witness ==
    /\ pc = "searched"
    /\ hops = 2
    /\ Len(results) = 3
    /\ results[2].distance = 1
    /\ results[3].distance = 1
    /\ results[3].edge \in C30_Neighbors(results[2].edge)

====
